---- MODULE Spec2Model ----
(***************************************************************************)
(* A model of the constraint-verification engine of IFEval-pp, and of the  *)
(* script that collects the responses it verifies:                         *)
(*   src/src/instructions_registry.py  INSTRUCTION_DICT, conflict_make     *)
(*   src/src/instructions.py           the checker classes                 *)
(*   src/generate_response.py          process_prompt, answer_prompts      *)
(*                                                                         *)
(* Python values are written as strings: the verdicts "True" and "False",  *)
(* "None" for None (a call that falls off the end of check_following, an   *)
(* argument that was never supplied), and the name of the exception for a  *)
(* call that raises.  A response is represented by what the checker's      *)
(* measurement reads from it (its counts, its case, what langdetect makes  *)
(* of it).                                                                 *)
(***************************************************************************)
EXTENDS Integers, Sequences, FiniteSets, TLC

VARIABLES
    instruction_id,  \* the id last looked up in INSTRUCTION_DICT ("None" before)
    instruction,     \* the checker instance built from it: its class and attributes
    call,            \* the test case at hand: an id, a response and the id's kwargs
    ret,             \* what that call returned or raised
    prior,           \* the instance as earlier calls left it when that call began
    pc,              \* where the evaluation of the test case stands
    detect_calls,    \* what langdetect.detect did in that call ("not called", ...)
    registry,        \* the entries of the module-level dict INSTRUCTION_DICT
    conflicts,       \* the caller's dictionary handed to conflict_make
    cm_before,       \* its contents when each conflict_make call on it started
    cm_results,      \* what each conflict_make call on it returned or raised
    attrs,           \* threads: attributes of the checker instances the threads use
    t_inst,          \* threads: the instance each thread calls
    t_args,          \* threads: each thread's response and arguments
    t_pc,            \* threads: each thread's position in check_following
    t_local,         \* threads: each thread's local variables
    t_ret,           \* threads: what each thread's call returned
    queries,         \* generate_response: the key of each query of the input file
    output_file,     \* generate_response: what the output file holds, write by write
    completed_keys,  \* generate_response: the keys the run read from the output file
    lock,            \* generate_response: the run's Lock: the future holding it, or 0
    num_workers,     \* generate_response: the size of the run's thread pool
    futures,         \* generate_response: where each submitted process_prompt stands
    api              \* generate_response: what each query's API call did in this run

vars == <<instruction_id, instruction, call, ret, prior, pc, detect_calls,
          registry, conflicts, cm_before, cm_results,
          attrs, t_inst, t_args, t_pc, t_local, t_ret,
          queries, output_file, completed_keys, lock, num_workers, futures, api>>

checker_vars  == <<instruction_id, instruction, call, ret, prior, pc, detect_calls,
                   registry>>
conflict_vars == <<conflicts, cm_before, cm_results>>
thread_vars   == <<attrs, t_inst, t_args, t_pc, t_local, t_ret>>
gen_vars      == <<queries, output_file, completed_keys, lock, num_workers, futures,
                   api>>

(***************************************************************************)
(* Bounds of the model.                                                    *)
(***************************************************************************)
\* counts a response can show: 0..MaxCount
MaxCount == 52
\* the thresholds a count is compared with: -1..MaxThreshold
MaxThreshold == 26
\* conflict_make calls made on one dictionary
MaxCalls == 2
\* repeated calls on one instance: counts 0..SeqMaxCount against thresholds
\* 1..SeqMaxThreshold
SeqMaxCount == 3
SeqMaxThreshold == 2
\* concurrent calls: counts 0..ThreadMaxCount against thresholds
\* 1..ThreadMaxThreshold
ThreadMaxCount == 1
ThreadMaxThreshold == 2
\* texts are made of at most so many pieces (characters, dividers, words):
\* the test cases of Spec, and those of the specification of each checker
SmallPieces == 2
ParagraphMaxPieces == 5
TwoMaxPieces == 4
FirstWordMaxPieces == 4
EndMaxPieces == 4
RepeatMaxPieces == 4
WordMaxPieces == 3
\* keywords= and forbidden_words= lists hold at most so many entries
MaxListLen == 2
\* num_paragraphs= arguments: up to MaxParagraphs + 1; nth_paragraph=
\* likewise
MaxParagraphs == 2
BulletMaxLines == 5
HighlightMaxPieces == 5
MaxHighlights == 2
TitleMaxPieces == 5
PostscriptMaxPieces == 4

Bool(b) == IF b THEN "True" ELSE "False"

Abs(x) == IF x < 0 THEN -x ELSE x

(***************************************************************************)
(* The registry.                                                           *)
(***************************************************************************)
INSTRUCTION_DICT ==
    ("keywords:existence" :> "KeywordChecker")
    @@ ("keywords:frequency" :> "KeywordFrequencyChecker")
    @@ ("keywords:forbidden_words" :> "ForbiddenWords")
    @@ ("keywords:letter_frequency" :> "LetterFrequencyChecker")
    @@ ("language:response_language" :> "ResponseLanguageChecker")
    @@ ("length_constraints:number_sentences" :> "NumberOfSentences")
    @@ ("length_constraints:number_paragraphs" :> "ParagraphChecker")
    @@ ("length_constraints:number_words" :> "NumberOfWords")
    @@ ("length_constraints:nth_paragraph_first_word" :> "ParagraphFirstWordCheck")
    @@ ("detectable_content:number_placeholders" :> "PlaceholderChecker")
    @@ ("detectable_content:postscript" :> "PostscriptChecker")
    @@ ("detectable_format:number_bullet_lists" :> "BulletListChecker")
    @@ ("detectable_format:constrained_response" :> "ConstrainedResponseChecker")
    @@ ("detectable_format:number_highlighted_sections" :> "HighlightSectionChecker")
    @@ ("detectable_format:multiple_sections" :> "SectionChecker")
    @@ ("detectable_format:json_format" :> "JsonFormat")
    @@ ("detectable_format:title" :> "TitleChecker")
    @@ ("combination:two_responses" :> "TwoResponsesChecker")
    @@ ("combination:repeat_prompt" :> "RepeatPromptThenAnswer")
    @@ ("startend:end_checker" :> "EndChecker")
    @@ ("change_case:capital_word_frequency" :> "CapitalWordFrequencyChecker")
    @@ ("change_case:english_capital" :> "CapitalLettersEnglishChecker")
    @@ ("change_case:english_lowercase" :> "LowercaseLettersEnglishChecker")
    @@ ("punctuation:no_comma" :> "CommaChecker")
    @@ ("startend:quotation" :> "QuotationChecker")

\* ids a caller may ask for that INSTRUCTION_DICT does not hold
OtherIds ==
    {"startend:constrained_start", "multi-turn:constrained_start",
     "multi-turn:end_checker", "keywords:none", "existence"}

RequestIds == DOMAIN INSTRUCTION_DICT \cup OtherIds

\* INSTRUCTION_DICT[instruction_id]: a dict subscript, KeyError when absent
RegistryWithConstrainedStart(id) ==
    IF id = "startend:constrained_start" THEN "ConstrainedStartChecker"
    ELSE IF id \in DOMAIN INSTRUCTION_DICT THEN INSTRUCTION_DICT[id]
    ELSE "KeyError"

Lookup(id) ==
    IF id \in DOMAIN INSTRUCTION_DICT THEN INSTRUCTION_DICT[id] ELSE "KeyError"

\* Instruction.__init__: a new instance holds its id and nothing else; the
\* attributes check_following stores do not exist yet
NewInstance(cls) ==
    [cls |-> cls, key |-> "unset", threshold |-> "unset", relation |-> "unset",
     language |-> "unset", nth |-> "unset"]

NoInstance == NewInstance("None")

(***************************************************************************)
(* The count-based checkers: NumberOfSentences, NumberOfWords,             *)
(* KeywordFrequencyChecker, LetterFrequencyChecker and                     *)
(* CapitalWordFrequencyChecker.                                            *)
(***************************************************************************)
COMPARISON_RELATION == {"at most", "at least", "around", "less than"}

\* relations a caller may pass: the four, an unknown one, and none at all
\* (the keyword argument defaults to None)
RelationArgs == COMPARISON_RELATION \cup {"exactly", "None"}

KeyedClasses == {"KeywordFrequencyChecker", "LetterFrequencyChecker"}

CountClasses ==
    {"NumberOfSentences", "NumberOfWords", "CapitalWordFrequencyChecker"}
    \cup KeyedClasses

\* the words (letters) a response of a keyed checker is made of, case-folded
Keys == {"a", "b"}

\* keyword= / letter= arguments: a key as it is, and a key in upper case
\* followed by a blank
KeyArgs == {"a", "B "}

\* str.strip() and str.lower() on the key arguments
Strip(s) == IF s = "B " THEN "B" ELSE s

Lower(s) == IF s = "B" THEN "b" ELSE IF s = "B " THEN "b " ELSE s

\* A response as the count-based checkers see it.  For the three classes that
\* measure the whole text it is the count that count_sentences, count_words or
\* the upper-case filter over word_tokenize yields.  For the keyed classes the
\* response is a text of `max` words (letters), each one of the two keys in
\* either case, given by the number of occurrences of each key.
CountResponses(cls, max) ==
    IF cls \in KeyedClasses
    THEN {[k \in Keys |-> IF k = "a" THEN n ELSE max - n] : n \in 0..max}
    ELSE 0..max

\* the key arguments a class takes: keyword= or letter=, or no such argument
KeyArgsOf(cls) == IF cls \in KeyedClasses THEN KeyArgs ELSE {"None"}

\* the comparison chain every count-based check_following ends with; a
\* relation that matches no branch falls off the end of the method
RelationChainStrict(actual, threshold, relation, window) ==
    IF relation = "at most" THEN Bool(actual < threshold)
    ELSE IF relation = "at least" THEN Bool(actual >= threshold)
    ELSE IF relation = "around" THEN Bool(Abs(actual - threshold) <= window)
    ELSE IF relation = "less than" THEN Bool(actual < threshold)
    ELSE "None"

RelationChain(actual, threshold, relation, window) ==
    IF relation = "at most" THEN Bool(actual <= threshold)
    ELSE IF relation = "at least" THEN Bool(actual >= threshold)
    ELSE IF relation = "around" THEN Bool(Abs(actual - threshold) <= window)
    ELSE IF relation = "less than" THEN Bool(actual < threshold)
    ELSE "None"

\* the literal each class compares the distance with under "around"
WindowAllFive(cls) ==
    CASE cls = "NumberOfSentences" -> 5
      [] cls = "NumberOfWords" -> 5
      [] OTHER -> 5

Window(cls) ==
    CASE cls = "NumberOfSentences" -> 2
      [] cls = "NumberOfWords" -> 25
      [] cls = "KeywordFrequencyChecker" -> 5
      [] cls = "LetterFrequencyChecker" -> 5
      [] cls = "CapitalWordFrequencyChecker" -> 5

\* the assignments to self that open check_following
\*   KeywordFrequencyChecker: self._keyword = keyword.strip()
\*   LetterFrequencyChecker:  self._letter = letter.strip().lower()
\*   all five: the threshold and self._comparison_relation
StoreArgsKeepRelation(self, key, threshold, relation) ==
    [self EXCEPT
        !.key = IF self.cls = "KeywordFrequencyChecker" THEN Strip(key)
                ELSE IF self.cls = "LetterFrequencyChecker" THEN Lower(Strip(key))
                ELSE @,
        !.threshold = threshold,
        !.relation = IF relation = "None" /\ @ # "unset" THEN @ ELSE relation]

StoreArgs(self, key, threshold, relation) ==
    [self EXCEPT
        !.key = IF self.cls = "KeywordFrequencyChecker" THEN Strip(key)
                ELSE IF self.cls = "LetterFrequencyChecker" THEN Lower(Strip(key))
                ELSE @,
        !.threshold = threshold,
        !.relation = relation]

\* the count the checker takes from the response, read through self
\*   KeywordFrequencyChecker: matches of \b<self._keyword>\b, re.IGNORECASE
\*   LetterFrequencyChecker:  Counter(value.lower())[self._letter]
Measure(self, response) ==
    IF self.cls = "KeywordFrequencyChecker" THEN response[Lower(self.key)]
    ELSE IF self.cls = "LetterFrequencyChecker"
         THEN (IF self.key \in Keys THEN response[self.key] ELSE 0)
    ELSE response


(***************************************************************************)
(* The checkers that ask langdetect for the language of the response.      *)
(***************************************************************************)
\* what langdetect.detect(value) does on a response: a language code, or
\* LangDetectException when it cannot decide
DetectOutcomes == {"en", "fr", "LangDetectException"}

\* language= arguments, None when not supplied
LanguageArgs == {"en", "fr", "None"}

\* the case of the response: str.isupper() holds of "upper" alone,
\* str.islower() of "lower" alone
Cases == {"upper", "lower", "mixed", "uncased"}

LanguageResponses == [case : Cases, detect : DetectOutcomes]

CaseClasses == {"CapitalLettersEnglishChecker", "LowercaseLettersEnglishChecker"}

LanguageClasses == {"ResponseLanguageChecker"} \cup CaseClasses

\* ResponseLanguageChecker.check_following after self._language = language:
\* the try block returns the comparison, the handler logs and falls through
\* to return False
ResponseLanguageFailOpen(self, response) ==
    IF response.detect = "LangDetectException" THEN "True"
    ELSE Bool(response.detect = self.language)

ResponseLanguage(self, response) ==
    IF response.detect = "LangDetectException" THEN "False"
    ELSE Bool(response.detect = self.language)

\* CapitalLettersEnglishChecker / LowercaseLettersEnglishChecker:
\* `value.isupper() and langdetect.detect(value) == "en"` inside try; the
\* handler logs and falls through to return True
CaseTest(cls, response) ==
    IF cls = "CapitalLettersEnglishChecker" THEN response.case = "upper"
    ELSE response.case = "lower"

EnglishCaseDetectFirst(cls, response) ==
    IF response.detect = "LangDetectException" THEN "True"
    ELSE Bool(response.detect = "en" /\ CaseTest(cls, response))

EnglishCaseFailClosed(cls, response) ==
    IF ~CaseTest(cls, response) THEN "False"
    ELSE IF response.detect = "LangDetectException" THEN "False"
    ELSE Bool(response.detect = "en")

EnglishCase(cls, response) ==
    IF ~CaseTest(cls, response) THEN "False"
    ELSE IF response.detect = "LangDetectException" THEN "True"
    ELSE Bool(response.detect = "en")

\* whether the call reaches langdetect.detect, and what detect then does:
\* `and` does not evaluate its right operand when the case test fails
DetectCall(cls, response) ==
    IF cls \in CaseClasses /\ ~CaseTest(cls, response) THEN "not called"
    ELSE IF response.detect = "LangDetectException" THEN "raised"
    ELSE "returned"

(***************************************************************************)
(* Text.  A str is a sequence of characters, each a string of length one.  *)
(***************************************************************************)
\* the characters str.strip() removes and \s matches
Whitespace == {" ", "\n"}

\* the upper-case letters of the texts drawn below, with their lower case
UpperToLower ==
    ("A" :> "a") @@ ("B" :> "b") @@ ("C" :> "c") @@ ("H" :> "h")
    @@ ("P" :> "p") @@ ("S" :> "s") @@ ("T" :> "t")

\* string.punctuation (but for the backslash and the grave accent, which no
\* text drawn below holds)
Punctuation ==
    {"!", "\"", "#", "$", "%", "&", "'", "(", ")", "*", "+", ",", "-", ".",
     "/", ":", ";", "<", "=", ">", "?", "@", "[", "]", "^", "_",
     "{", "|", "}", "~"}

\* \w: letters, digits and the underscore
IsWordChar(c) == c \notin Whitespace /\ c \notin (Punctuation \ {"_"})

\* n asterisks
Stars(n) == [i \in 1..n |-> "*"]

\* the concatenation of a sequence of texts
RECURSIVE Concat(_)
Concat(pieces) ==
    IF pieces = <<>> THEN <<>> ELSE Head(pieces) \o Concat(Tail(pieces))

\* the texts made of at most `max` of the given pieces
TextsOf(pieces, max) ==
    {Concat(ps) : ps \in UNION {[1..n -> pieces] : n \in 0..max}}

\* str.lstrip(chars), str.rstrip(chars), str.strip(chars)
RECURSIVE str_lstrip(_, _)
str_lstrip(s, chars) ==
    IF s # <<>> /\ Head(s) \in chars THEN str_lstrip(Tail(s), chars) ELSE s

RECURSIVE str_rstrip(_, _)
str_rstrip(s, chars) ==
    IF s # <<>> /\ s[Len(s)] \in chars
    THEN str_rstrip(SubSeq(s, 1, Len(s) - 1), chars) ELSE s

str_strip(s, chars) == str_rstrip(str_lstrip(s, chars), chars)

\* str.lower()
str_lower(s) ==
    [i \in 1..Len(s) |-> IF s[i] \in DOMAIN UpperToLower THEN UpperToLower[s[i]]
                         ELSE s[i]]

\* str.startswith(prefix), str.endswith(suffix)
str_startswith(s, prefix) ==
    Len(prefix) <= Len(s) /\ SubSeq(s, 1, Len(prefix)) = prefix

str_endswith(s, suffix) ==
    Len(suffix) <= Len(s) /\ SubSeq(s, Len(s) - Len(suffix) + 1, Len(s)) = suffix

\* the first index at or after i that holds no whitespace: a greedy \s*
RECURSIVE SkipSpace(_, _)
SkipSpace(s, i) ==
    IF i <= Len(s) /\ s[i] \in Whitespace THEN SkipSpace(s, i + 1) ELSE i

\* n asterisks stand at i
StarsAt(s, i, n) == i + n - 1 <= Len(s) /\ \A k \in i..(i + n - 1) : s[k] = "*"

\* A match of a split pattern that starts at i: the index after the match,
\* 0 when the pattern does not match there.
\*   "divider"    r"\s*\*\*\*\s*"
\*   "six"        r"(?<!\*)\*{6}(?!\*)"
\*   "blank line" r"\n\n"
MatchAt(pattern, s, i) ==
    CASE pattern = "divider" ->
            LET j == SkipSpace(s, i)
            IN IF StarsAt(s, j, 3) THEN SkipSpace(s, j + 3) ELSE 0
      [] pattern = "six" ->
            IF /\ i = 1 \/ s[i - 1] # "*"
               /\ StarsAt(s, i, 6)
               /\ i + 6 > Len(s) \/ s[i + 6] # "*"
            THEN i + 6 ELSE 0
      [] pattern = "blank line" ->
            IF i + 1 <= Len(s) /\ s[i] = "\n" /\ s[i + 1] = "\n" THEN i + 2 ELSE 0

\* re.split(pattern, value): the leftmost match from i on ends the segment
\* that began at `seg`, and the search goes on behind the match
RECURSIVE SplitFrom(_, _, _, _)
SplitFrom(pattern, s, i, seg) ==
    IF i > Len(s) THEN <<SubSeq(s, seg, Len(s))>>
    ELSE LET e == MatchAt(pattern, s, i)
         IN IF e = 0 THEN SplitFrom(pattern, s, i + 1, seg)
            ELSE <<SubSeq(s, seg, i - 1)>> \o SplitFrom(pattern, s, e, e)

re_split(pattern, value) == SplitFrom(pattern, value, 1, 1)

\* `not paragraph.strip()`
Blank(s) == str_strip(s, Whitespace) = <<>>

(***************************************************************************)
(* ParagraphChecker and TwoResponsesChecker.                               *)
(***************************************************************************)
\* ParagraphChecker: the loop over enumerate(paragraphs), from `index` on
\* with num_paragraphs at `num`; it ends with the count or returns False
RECURSIVE ParagraphLoopNoReturn(_, _, _)
ParagraphLoopNoReturn(paragraphs, index, num) ==
    IF index = Len(paragraphs) THEN [returned |-> FALSE, num_paragraphs |-> num]
    ELSE IF Blank(paragraphs[index + 1])
         THEN ParagraphLoopNoReturn(paragraphs, index + 1, num - 1)
         ELSE ParagraphLoopNoReturn(paragraphs, index + 1, num)

RECURSIVE ParagraphLoop(_, _, _)
ParagraphLoop(paragraphs, index, num) ==
    IF index = Len(paragraphs) THEN [returned |-> FALSE, num_paragraphs |-> num]
    ELSE IF Blank(paragraphs[index + 1])
         THEN IF index = 0 \/ index = Len(paragraphs) - 1
              THEN ParagraphLoop(paragraphs, index + 1, num - 1)
              ELSE [returned |-> TRUE, num_paragraphs |-> num]
         ELSE ParagraphLoop(paragraphs, index + 1, num)

\* ParagraphChecker.check_following(value, num_paragraphs=...)
ParagraphCheck(self0, value, num_paragraphs) ==
    LET self == [self0 EXCEPT !.threshold = num_paragraphs]
        paragraphs == re_split("divider", value)
        loop == ParagraphLoop(paragraphs, 0, Len(paragraphs))
    IN [self |-> self,
        ret |-> IF loop.returned THEN "False"
                ELSE Bool(loop.num_paragraphs = self.threshold)]

\* TwoResponsesChecker: the loop over enumerate(responses), from `index` on
\* with valid_responses at `valid`
RECURSIVE ResponsesLoop(_, _, _)
ResponsesLoop(responses, index, valid) ==
    IF index = Len(responses) THEN [returned |-> FALSE, valid_responses |-> valid]
    ELSE IF Blank(responses[index + 1])
         THEN IF index # 0 /\ index # Len(responses) - 1
              THEN [returned |-> TRUE, valid_responses |-> valid]
              ELSE ResponsesLoop(responses, index + 1, valid)
         ELSE ResponsesLoop(responses, index + 1,
                            Append(valid, responses[index + 1]))

\* the return expression of TwoResponsesChecker
TwoValidSameAllowed(valid) == Len(valid) = 2

TwoValid(valid) ==
    /\ Len(valid) = 2
    /\ str_strip(valid[1], Whitespace) # str_strip(valid[2], Whitespace)

\* TwoResponsesChecker.check_following(value)
TwoResponsesCheck(self0, value) ==
    LET responses == re_split("six", value)
        loop == ResponsesLoop(responses, 0, <<>>)
    IN [self |-> self0,
        ret |-> IF loop.returned THEN "False"
                ELSE Bool(TwoValid(loop.valid_responses))]

(***************************************************************************)
(* ParagraphFirstWordCheck.                                                *)
(***************************************************************************)
\* the segments of `paragraphs` that are not blank, counted as the loop
\* `for paragraph in paragraphs: if not paragraph.strip(): num_paragraphs -= 1`
\* counts them
NonBlankCount(paragraphs) ==
    Len(paragraphs) - Cardinality({i \in 1..Len(paragraphs) : Blank(paragraphs[i])})

\* value.split()[0] of a text that is not blank: the characters up to the
\* first whitespace behind the leading whitespace
RECURSIVE UpToWhitespace(_)
UpToWhitespace(s) ==
    IF s = <<>> \/ Head(s) \in Whitespace THEN <<>>
    ELSE <<Head(s)>> \o UpToWhitespace(Tail(s))

FirstToken(s) == UpToWhitespace(str_lstrip(s, Whitespace))

\* punctuation = {".", ",", "?", "!", "'", '"'}
FirstWordPunctuation == {".", ",", "?", "!", "'", "\""}

\* `for letter in word: if letter in punctuation: break;
\*  first_word += letter.lower()`
RECURSIVE UpToPunctuation(_)
UpToPunctuation(word) ==
    IF word = <<>> \/ Head(word) \in FirstWordPunctuation THEN <<>>
    ELSE str_lower(<<Head(word)>>) \o UpToPunctuation(Tail(word))

\* the word taken from the paragraph: its first token without leading
\* single quotes, then without leading double quotes, cut at the first
\* punctuation mark and in lower case
FirstWordOf(paragraph) ==
    UpToPunctuation(str_lstrip(str_lstrip(FirstToken(paragraph), {"'"}), {"\""}))

\* the nth of the segments that are not blank
NthNonBlank(paragraphs, nth) ==
    SelectSeq(paragraphs, LAMBDA p : ~Blank(p))[nth]

\* the segment that paragraphs[self._nth_paragraph - 1] reads, nth >= 1
NthSegment(paragraphs, nth) == paragraphs[nth]

\* ParagraphFirstWordCheck.check_following(value, num_paragraphs,
\* nth_paragraph, first_word)
FirstWordCheck(self0, value, num_paragraphs, nth_paragraph, first_word) ==
    LET self == [self0 EXCEPT !.threshold = num_paragraphs,
                              !.nth = nth_paragraph,
                              !.key = first_word]
        paragraphs == re_split("blank line", value)
        num == NonBlankCount(paragraphs)
    IN [self |-> self,
        ret |-> IF self.nth <= num
                THEN LET paragraph ==
                           str_strip(NthSegment(paragraphs, self.nth), Whitespace)
                     IN IF paragraph = <<>> THEN "False"
                        ELSE Bool(/\ num = self.threshold
                                  /\ FirstWordOf(paragraph) = self.key)
                ELSE "False"]

(***************************************************************************)
(* EndChecker and RepeatPromptThenAnswer.                                  *)
(***************************************************************************)
\* None where a str is expected: a keyword argument the caller left out
NoneArg == <<"None">>

\* value.strip().strip("\"").lower()
EndValue(value) == str_lower(str_strip(str_strip(value, Whitespace), {"\""}))

\* end_phrase.strip(), then self._end_phrase.strip().lower()
EndPhrase(end_phrase) ==
    str_lower(str_strip(str_strip(end_phrase, Whitespace), Whitespace))

\* EndChecker.check_following(value, end_phrase=...): with end_phrase None
\* the attribute holds None and None.strip() raises AttributeError
EndCheck(self0, value, end_phrase) ==
    IF end_phrase = NoneArg
    THEN [self |-> [self0 EXCEPT !.key = end_phrase], ret |-> "AttributeError"]
    ELSE LET self == [self0 EXCEPT !.key = EndPhrase(end_phrase)]
         IN [self |-> self, ret |-> Bool(str_endswith(EndValue(value), self.key))]

\* normalize_text(s): s.strip().lower() without the characters of
\* string.punctuation
normalize_text_keep_case(s) ==
    SelectSeq(str_strip(s, Whitespace), LAMBDA c : c \notin Punctuation)

normalize_text(s) ==
    SelectSeq(str_lower(str_strip(s, Whitespace)), LAMBDA c : c \notin Punctuation)

\* RepeatPromptThenAnswer.check_following(value, prompt_to_repeat=...): with
\* prompt_to_repeat None, None.strip() raises AttributeError
RepeatPromptCheck(self0, value, prompt_to_repeat) ==
    LET self == [self0 EXCEPT !.key = prompt_to_repeat]
    IN [self |-> self,
        ret |-> IF self.key = NoneArg THEN "AttributeError"
                ELSE Bool(str_startswith(normalize_text(value),
                                         normalize_text(self.key)))]

(***************************************************************************)
(* KeywordChecker and ForbiddenWords.                                      *)
(***************************************************************************)
\* ord(c) of the characters that keywords are made of
Ord ==
    (" " :> 32) @@ ("." :> 46) @@ ("A" :> 65) @@ ("B" :> 66) @@ ("C" :> 67)
    @@ ("a" :> 97) @@ ("b" :> 98) @@ ("c" :> 99)

\* a < b on str
RECURSIVE str_lt(_, _)
str_lt(a, b) ==
    IF b = <<>> THEN FALSE
    ELSE IF a = <<>> THEN TRUE
    ELSE IF Head(a) = Head(b) THEN str_lt(Tail(a), Tail(b))
    ELSE Ord[Head(a)] < Ord[Head(b)]

\* sorted(list): a new list, the argument is left as it is
RECURSIVE InsertSorted(_, _)
InsertSorted(x, list) ==
    IF list = <<>> THEN <<x>>
    ELSE IF str_lt(x, Head(list)) THEN <<x>> \o list
    ELSE <<Head(list)>> \o InsertSorted(x, Tail(list))

RECURSIVE sorted(_)
sorted(list) ==
    IF list = <<>> THEN <<>> ELSE InsertSorted(Head(list), sorted(Tail(list)))

\* sorted(list(set(list))): each entry once
RECURSIVE SortedSet(_)
SortedSet(S) ==
    IF S = {} THEN <<>>
    ELSE LET least == CHOOSE x \in S : \A y \in S \ {x} : str_lt(x, y)
         IN <<least>> \o SortedSet(S \ {least})

Range(list) == {list[i] : i \in 1..Len(list)}

\* \b in front of s[i], for i in 1..Len(s) + 1
Boundary(s, i) ==
    (i > 1 /\ IsWordChar(s[i - 1])) # (i <= Len(s) /\ IsWordChar(s[i]))

\* one character of the pattern against one of the text, re.IGNORECASE; in a
\* pattern that did not go through re.escape a dot matches any character but
\* the newline
CharMatches(p, c, escaped) ==
    IF ~escaped /\ p = "." THEN c # "\n"
    ELSE str_lower(<<p>>) = str_lower(<<c>>)

PatternAt(pattern, escaped, s, i) ==
    /\ i + Len(pattern) - 1 <= Len(s)
    /\ \A k \in 1..Len(pattern) : CharMatches(pattern[k], s[i + k - 1], escaped)

\* re.search(r"\b" + pattern + r"\b", value, flags=re.IGNORECASE) for a word
\* of letters, blanks and dots
WordSearch(pattern, escaped, value) ==
    \E i \in 1..(Len(value) + 1) :
        /\ Boundary(value, i)
        /\ PatternAt(pattern, escaped, value, i)
        /\ Boundary(value, i + Len(pattern))

\* KeywordChecker: `for keyword in self._keywords`, the pattern built with
\* re.escape(keyword)
RECURSIVE KeywordLoopAny(_, _)
KeywordLoopAny(keywords, value) ==
    IF keywords = <<>> THEN "False"
    ELSE IF WordSearch(Head(keywords), TRUE, value) THEN "True"
    ELSE KeywordLoopAny(Tail(keywords), value)

RECURSIVE KeywordLoop(_, _)
KeywordLoop(keywords, value) ==
    IF keywords = <<>> THEN "True"
    ELSE IF ~WordSearch(Head(keywords), TRUE, value) THEN "False"
    ELSE KeywordLoop(Tail(keywords), value)

\* KeywordChecker.check_following(value, keywords=...): sorted(None) raises
\* TypeError
KeywordCheck(self0, value, keywords) ==
    IF keywords = NoneArg
    THEN [self |-> [self0 EXCEPT !.key = keywords], ret |-> "TypeError"]
    ELSE LET self == [self0 EXCEPT !.key = sorted(keywords)]
         IN [self |-> self, ret |-> KeywordLoop(self.key, value)]

\* ForbiddenWords: `for word in self._forbidden_words`, the pattern built
\* from the word as it is
RECURSIVE ForbiddenLoop(_, _)
ForbiddenLoop(words, value) ==
    IF words = <<>> THEN "True"
    ELSE IF WordSearch(Head(words), FALSE, value) THEN "False"
    ELSE ForbiddenLoop(Tail(words), value)

\* ForbiddenWords.check_following(value, forbidden_words=...): set(None)
\* raises TypeError
ForbiddenCheck(self0, value, forbidden_words) ==
    IF forbidden_words = NoneArg
    THEN [self |-> self0, ret |-> "TypeError"]
    ELSE LET self == [self0 EXCEPT !.key = SortedSet(Range(forbidden_words))]
         IN [self |-> self, ret |-> ForbiddenLoop(self.key, value)]

\* the caller's list after the call: sorted() and list(set()) build new
\* lists and the attribute is bound to those
ListSortedInPlace(list, stored) == IF list = NoneArg THEN list ELSE stored

ListAfter(list, stored) == list

(***************************************************************************)
(* JsonFormat.  The response is represented by what json.loads does with   *)
(* the text left after the code fences are removed: it returns a value, or *)
(* raises JSONDecodeError (a ValueError), or, on brackets nested deeper    *)
(* than the interpreter's recursion limit, raises RecursionError.          *)
(***************************************************************************)
LoadsOutcomes == {"value", "JSONDecodeError", "RecursionError"}

\* JsonFormat.check_following(value): `except ValueError` returns False,
\* any other exception leaves the method
JsonCheck(self0, response) ==
    [self |-> self0,
     ret |-> IF response.loads = "value" THEN "True"
             ELSE IF response.loads = "JSONDecodeError" THEN "False"
             ELSE response.loads]

(***************************************************************************)
(* check_following on an instance: the instance after the call and what    *)
(* the call returned.                                                      *)
(***************************************************************************)
CountCheck(self0, response, key, threshold, relation) ==
    LET self == StoreArgs(self0, key, threshold, relation)
        actual == Measure(self, response)
    IN [self |-> self,
        ret |-> RelationChain(actual, self.threshold, self.relation,
                              Window(self.cls))]

LanguageCheck(self0, response, language) ==
    IF self0.cls = "ResponseLanguageChecker"
    THEN LET self == [self0 EXCEPT !.language = language]
         IN [self |-> self, ret |-> ResponseLanguage(self, response)]
    ELSE [self |-> self0, ret |-> EnglishCase(self0.cls, response)]

(***************************************************************************)
(* BulletListChecker.                                                      *)
(***************************************************************************)
\* A match of r"^\s*\*[^\*].*$" (marker "*") or of r"^\s*-.*$" (marker "-")
\* under re.MULTILINE that starts at i: the index after the match, 0 when
\* the pattern does not match there.  ^ holds at the start of a line, \s*
\* runs over blanks and newlines up to the marker, [^\*] takes any character
\* but an asterisk, a newline too, and .*$ runs to the end of the line.
BulletEnd(marker, value, i) ==
    LET j == SkipSpace(value, i)
        rest == IF marker = "*" THEN j + 2 ELSE j + 1
        EndOfLine ==
            IF \E k \in rest..Len(value) : value[k] = "\n"
            THEN CHOOSE k \in rest..Len(value) :
                    /\ value[k] = "\n"
                    /\ \A m \in rest..(k - 1) : value[m] # "\n"
            ELSE Len(value) + 1
    IN IF /\ i = 1 \/ value[i - 1] = "\n"
          /\ j <= Len(value) /\ value[j] = marker
          /\ marker = "*" => (j + 1 <= Len(value) /\ value[j + 1] # "*")
       THEN EndOfLine
       ELSE 0

\* len(re.findall(pattern, value, flags=re.MULTILINE)), the scan at i: the
\* matches are taken from left to right and do not overlap
RECURSIVE findall_bullets(_, _, _)
findall_bullets(marker, value, i) ==
    IF i > Len(value) THEN 0
    ELSE LET e == BulletEnd(marker, value, i)
         IN IF e = 0 THEN findall_bullets(marker, value, i + 1)
            ELSE 1 + findall_bullets(marker, value, e)

\* BulletListChecker.check_following(value, num_bullets=...)
BulletCheck(self0, value, num_bullets) ==
    LET self == [self0 EXCEPT !.threshold = num_bullets]
        num_bullet_lists ==
            findall_bullets("*", value, 1) + findall_bullets("-", value, 1)
    IN [self |-> self, ret |-> Bool(num_bullet_lists = self.threshold)]

(***************************************************************************)
(* HighlightSectionChecker.                                                *)
(***************************************************************************)
\* A match of r"\*[^\n\*]*\*" (n = 1) or of r"\*\*[^\n\*]*\*\*" (n = 2) that
\* starts at i: the index after the match, 0 when the pattern does not match
\* there.  The middle runs up to the first asterisk or newline.
SpanEnd(n, value, i) ==
    LET Stops == {k \in (i + n)..Len(value) : value[k] \in {"*", "\n"}}
        j == IF Stops = {} THEN Len(value) + 1
             ELSE CHOOSE k \in Stops : \A m \in Stops : k <= m
    IN IF StarsAt(value, i, n) /\ StarsAt(value, j, n) THEN j + n ELSE 0

\* `if highlight.strip("*").strip()`, and for a double-asterisk span
\* `if highlight.removeprefix("**").removesuffix("**").strip()`, of the text
\* between the asterisks
HighlightCountedAlways(inner) == TRUE

HighlightCounted(inner) == ~Blank(inner)

\* the spans re.findall gives from i on, from left to right and without
\* overlap, that the loop counts
RECURSIVE findall_spans(_, _, _)
findall_spans(n, value, i) ==
    IF i > Len(value) THEN 0
    ELSE LET e == SpanEnd(n, value, i)
         IN IF e = 0 THEN findall_spans(n, value, i + 1)
            ELSE (IF HighlightCounted(SubSeq(value, i + n, e - n - 1)) THEN 1 ELSE 0)
                 + findall_spans(n, value, e)

\* HighlightSectionChecker.check_following(value, num_highlights=...)
HighlightCheck(self0, value, num_highlights) ==
    LET self == [self0 EXCEPT !.threshold = num_highlights]
        num == findall_spans(1, value, 1) + findall_spans(2, value, 1)
    IN [self |-> self, ret |-> Bool(num >= self.threshold)]

(***************************************************************************)
(* TitleChecker.                                                           *)
(***************************************************************************)
\* re.findall(r"<<([^<\n][^>\n]*)>>", value), the scan at i: the groups of
\* the matches, from left to right and without overlap.  Behind "<<" comes
\* one character that is no "<" and no newline, then the run up to the first
\* ">" or newline, where ">>" must stand.
RECURSIVE findall_titles(_, _)
findall_titles(value, i) ==
    IF i > Len(value) THEN <<>>
    ELSE LET Stops == {k \in (i + 3)..Len(value) : value[k] \in {">", "\n"}}
             j == IF Stops = {} THEN Len(value) + 1
                  ELSE CHOOSE k \in Stops : \A m \in Stops : k <= m
         IN IF /\ j + 1 <= Len(value)
               /\ value[i] = "<" /\ value[i + 1] = "<"
               /\ value[i + 2] \notin {"<", "\n"}
               /\ value[j] = ">" /\ value[j + 1] = ">"
            THEN <<SubSeq(value, i + 2, j - 1)>> \o findall_titles(value, j + 2)
            ELSE findall_titles(value, i + 1)

\* TitleChecker.check_following(value): `for title in titles: if
\* title.strip(): return True`, then `return False`
TitleCheck(self0, value) ==
    LET titles == findall_titles(value, 1)
    IN [self |-> self0,
        ret |-> Bool(\E k \in 1..Len(titles) : ~Blank(titles[k]))]

(***************************************************************************)
(* PostscriptChecker.                                                      *)
(***************************************************************************)
\* postscript_pattern between its r"\s*" and its r".*$", which match
\* whatever stands around it, as the regular expression re reads it, token
\* by token: "dot" is \. (a full stop), "space?" is \s?, "any" is an
\* unescaped dot (any character but the newline), every other token is the
\* character itself.  The marker is a text of letters, blanks, full stops
\* and opening parentheses.
postscript_pattern(marker) ==
    IF marker = <<"P", ".", "P", ".", "S">>
    THEN <<"p", "dot", "space?", "p", "dot", "space?", "s">>
    ELSE IF marker = <<"P", ".", "S", ".">>
    THEN <<"p", "dot", "space?", "s", "dot">>
    ELSE [k \in 1..Len(marker) |->
             IF marker[k] = "." THEN "any" ELSE str_lower(marker)[k]]

\* the tokens match the text from i on
RECURSIVE MatchTokens(_, _, _)
MatchTokens(tokens, s, i) ==
    IF tokens = <<>> THEN TRUE
    ELSE IF Head(tokens) = "space?"
    THEN \/ MatchTokens(Tail(tokens), s, i)
         \/ /\ i <= Len(s) /\ s[i] \in Whitespace
            /\ MatchTokens(Tail(tokens), s, i + 1)
    ELSE /\ i <= Len(s)
         /\ CASE Head(tokens) = "any" -> s[i] # "\n"
              [] Head(tokens) = "dot" -> s[i] = "."
              [] OTHER -> s[i] = Head(tokens)
         /\ MatchTokens(Tail(tokens), s, i + 1)

\* PostscriptChecker.check_following(value, postscript_marker=...): None has
\* no lower(); re.findall compiles the pattern and raises re.error for an
\* opening parenthesis that is never closed
PostscriptCheck(self0, value, postscript_marker) ==
    IF postscript_marker = NoneArg
    THEN [self |-> [self0 EXCEPT !.key = postscript_marker], ret |-> "AttributeError"]
    ELSE LET self == [self0 EXCEPT !.key = str_strip(postscript_marker, Whitespace)]
             pattern == postscript_pattern(self.key)
             lowered == str_lower(value)
         IN [self |-> self,
             ret |-> IF "(" \in Range(pattern) THEN "error"
                     ELSE Bool(\E i \in 1..(Len(lowered) + 1) :
                                  MatchTokens(pattern, lowered, i))]

(***************************************************************************)
(* Spec: one test case (id, response, kwargs) is looked up in the registry *)
(* and checked on a fresh instance.                                        *)
(***************************************************************************)
IdOf(cls) == CHOOSE id \in DOMAIN INSTRUCTION_DICT : INSTRUCTION_DICT[id] = cls

CountCalls(cls, max, thresholds) ==
    [response : CountResponses(cls, max), key : KeyArgsOf(cls),
     threshold : thresholds, relation : RelationArgs]

LanguageCalls(cls) ==
    [response : LanguageResponses,
     language : IF cls = "ResponseLanguageChecker" THEN LanguageArgs ELSE {"None"}]

\* The responses and kwargs drawn for the checkers that read the text: the
\* pieces the responses are made of, and the arguments.
ParagraphCalls(max) ==
    [response : TextsOf({<<"A">>, <<"B">>, <<" ">>, Stars(3), Stars(1)}, max),
     num_paragraphs : 0..(MaxParagraphs + 1)]

TwoResponsesCalls(max) ==
    [response : TextsOf({<<"A">>, <<"B">>, <<" ">>, Stars(6), Stars(5), Stars(1)},
                        max)]

FirstWordCalls(max) ==
    [response : TextsOf({<<"\n", "\n">>, <<" ">>, <<"H", "i">>, <<"a">>, <<",">>,
                         <<"'">>}, max),
     num_paragraphs : 1..MaxParagraphs,
     nth_paragraph : 1..(MaxParagraphs + 1),
     first_word : {<<"h", "i">>, <<"a">>}]

EndCalls(max) ==
    [response : TextsOf({<<"a">>, <<"B">>, <<" ">>, <<"\"">>}, max),
     end_phrase : {<<"a">>, <<"B">>, <<"a", "B">>, <<" ", "b", " ">>,
                   <<"\"", "a", "\"">>, <<"\"", "B", "\"">>, <<>>, NoneArg}]

RepeatCalls(max) ==
    [response : TextsOf({<<"T", " ", "j", ".">>, <<"t", " ", "j", ".">>, <<"s">>,
                         <<",">>, <<" ">>}, max),
     prompt_to_repeat : {<<"T", " ", "j", ".">>, <<" ", "t", " ", "j">>,
                         <<"s", ",">>, <<".">>, <<>>, NoneArg}]

WordPieces == {<<"a">>, <<"A">>, <<"c">>, <<" ">>, <<".">>}

\* the entries of keywords= and forbidden_words= lists
Words == {<<"a">>, <<"a", "c">>, <<"a", ".", "c">>}

\* the lists: any entries in any order, repeated or not, and no list at all
WordLists(max) == UNION {[1..n -> Words] : n \in 0..max} \cup {NoneArg}

KeywordCalls(max, len) ==
    [response : TextsOf(WordPieces, max), keywords : WordLists(len)]

ForbiddenCalls(max, len) ==
    [response : TextsOf(WordPieces, max), forbidden_words : WordLists(len)]

JsonCalls == [response : [loads : LoadsOutcomes]]

TextClasses ==
    {"ParagraphChecker", "TwoResponsesChecker", "ParagraphFirstWordCheck",
     "EndChecker", "RepeatPromptThenAnswer", "KeywordChecker", "ForbiddenWords",
     "JsonFormat"}

TextCalls(cls) ==
    CASE cls = "ParagraphChecker" -> ParagraphCalls(SmallPieces)
      [] cls = "TwoResponsesChecker" -> TwoResponsesCalls(SmallPieces)
      [] cls = "ParagraphFirstWordCheck" -> FirstWordCalls(SmallPieces)
      [] cls = "EndChecker" -> EndCalls(SmallPieces)
      [] cls = "RepeatPromptThenAnswer" -> RepeatCalls(SmallPieces)
      [] cls = "KeywordChecker" -> KeywordCalls(SmallPieces, MaxListLen)
      [] cls = "ForbiddenWords" -> ForbiddenCalls(SmallPieces, MaxListLen)
      [] cls = "JsonFormat" -> JsonCalls

\* the responses and kwargs drawn for an id; ids whose checker is not
\* modelled, and ids the registry does not hold, come with no arguments
ArgsOf(id) ==
    IF Lookup(id) \in CountClasses
    THEN CountCalls(Lookup(id), MaxCount, (-1)..MaxThreshold)
    ELSE IF Lookup(id) \in LanguageClasses THEN LanguageCalls(Lookup(id))
    ELSE IF Lookup(id) \in TextClasses THEN TextCalls(Lookup(id))
    ELSE {"None"}

\* instruction_cls = INSTRUCTION_DICT[instruction_id]
\* instruction = instruction_cls(instruction_id)
Resolve ==
    /\ pc = "resolve"
    /\ instruction_id' = call.id
    /\ IF Lookup(call.id) = "KeyError"
       THEN /\ instruction' = NoInstance
            /\ ret' = "KeyError"
            /\ pc' = "done"
       ELSE /\ instruction' = NewInstance(Lookup(call.id))
            /\ ret' = "None"
            /\ pc' = "check"
    /\ UNCHANGED <<call, prior, detect_calls, registry, conflict_vars, thread_vars, gen_vars>>

\* instruction.check_following(response, **kwargs), a count-based checker
CheckCount ==
    /\ pc = "check"
    /\ instruction.cls \in CountClasses
    /\ LET out == CountCheck(instruction, call.args.response, call.args.key,
                             call.args.threshold, call.args.relation)
       IN /\ instruction' = out.self
          /\ ret' = out.ret
    /\ prior' = instruction
    /\ pc' = "done"
    /\ UNCHANGED <<instruction_id, call, detect_calls, registry, conflict_vars,
                   thread_vars, gen_vars>>

\* instruction.check_following(response, **kwargs), a checker using langdetect
CheckLanguage ==
    /\ pc = "check"
    /\ instruction.cls \in LanguageClasses
    /\ LET out == LanguageCheck(instruction, call.args.response, call.args.language)
       IN /\ instruction' = out.self
          /\ ret' = out.ret
    /\ detect_calls' = DetectCall(instruction.cls, call.args.response)
    /\ prior' = instruction
    /\ pc' = "done"
    /\ UNCHANGED <<instruction_id, call, registry, conflict_vars, thread_vars, gen_vars>>

\* what every check_following call of a test case leaves behind: the
\* instance with the attributes the call stored, and what the call returned
Checked(out) ==
    /\ instruction' = out.self
    /\ ret' = out.ret
    /\ prior' = instruction
    /\ pc' = "done"
    /\ UNCHANGED <<instruction_id, detect_calls, registry, conflict_vars,
                   thread_vars, gen_vars>>

\* instruction.check_following(response, **kwargs), by checker class
CheckParagraphs ==
    /\ pc = "check"
    /\ instruction.cls = "ParagraphChecker"
    /\ Checked(ParagraphCheck(instruction, call.args.response,
                              call.args.num_paragraphs))
    /\ UNCHANGED call

CheckTwoResponses ==
    /\ pc = "check"
    /\ instruction.cls = "TwoResponsesChecker"
    /\ Checked(TwoResponsesCheck(instruction, call.args.response))
    /\ UNCHANGED call

CheckFirstWord ==
    /\ pc = "check"
    /\ instruction.cls = "ParagraphFirstWordCheck"
    /\ Checked(FirstWordCheck(instruction, call.args.response,
                              call.args.num_paragraphs, call.args.nth_paragraph,
                              call.args.first_word))
    /\ UNCHANGED call

CheckEnd ==
    /\ pc = "check"
    /\ instruction.cls = "EndChecker"
    /\ Checked(EndCheck(instruction, call.args.response, call.args.end_phrase))
    /\ UNCHANGED call

CheckRepeatPrompt ==
    /\ pc = "check"
    /\ instruction.cls = "RepeatPromptThenAnswer"
    /\ Checked(RepeatPromptCheck(instruction, call.args.response,
                                 call.args.prompt_to_repeat))
    /\ UNCHANGED call

CheckKeywords ==
    /\ pc = "check"
    /\ instruction.cls = "KeywordChecker"
    /\ LET out == KeywordCheck(instruction, call.args.response, call.args.keywords)
       IN /\ Checked(out)
          /\ call' = [call EXCEPT !.args.keywords = ListAfter(@, out.self.key)]

CheckForbidden ==
    /\ pc = "check"
    /\ instruction.cls = "ForbiddenWords"
    /\ LET out == ForbiddenCheck(instruction, call.args.response,
                                 call.args.forbidden_words)
       IN /\ Checked(out)
          /\ call' = [call EXCEPT
                         !.args.forbidden_words = ListAfter(@, out.self.key)]

CheckJson ==
    /\ pc = "check"
    /\ instruction.cls = "JsonFormat"
    /\ Checked(JsonCheck(instruction, call.args.response))
    /\ UNCHANGED call

ConflictIdle ==
    /\ conflicts = <<>>
    /\ cm_before = <<>>
    /\ cm_results = <<>>

ThreadsIdle ==
    /\ attrs = <<>>
    /\ t_inst = <<>>
    /\ t_args = <<>>
    /\ t_pc = <<>>
    /\ t_local = <<>>
    /\ t_ret = <<>>

\* generate_response is not running and has no files
GenIdle ==
    /\ queries = <<>>
    /\ output_file = <<>>
    /\ completed_keys = {}
    /\ lock = 0
    /\ num_workers = 0
    /\ futures = <<>>
    /\ api = <<>>

Init ==
    /\ \E id \in RequestIds : \E a \in ArgsOf(id) : call = [id |-> id, args |-> a]
    /\ instruction_id = "None"
    /\ instruction = NoInstance
    /\ ret = "None"
    /\ prior = NoInstance
    /\ pc = "resolve"
    /\ detect_calls = "not called"
    /\ registry = INSTRUCTION_DICT
    /\ ConflictIdle
    /\ ThreadsIdle
    /\ GenIdle

Next ==
    \/ Resolve
    \/ CheckCount
    \/ CheckLanguage
    \/ CheckParagraphs
    \/ CheckTwoResponses
    \/ CheckFirstWord
    \/ CheckEnd
    \/ CheckRepeatPrompt
    \/ CheckKeywords
    \/ CheckForbidden
    \/ CheckJson

Spec == Init /\ [][Next]_vars

(***************************************************************************)
(* Claims checked under Spec.                                              *)
(***************************************************************************)
\* the test case at hand was checked by a count-based checker
CountDone == pc = "done" /\ instruction.cls \in CountClasses

\* the count of the test case: the number of sentences, words or upper-case
\* words of the response, or the occurrences in it of the keyword (letter)
\* the caller named, case-folded
CallCount ==
    IF instruction.cls \in KeyedClasses
    THEN call.args.response[IF call.args.key = "a" THEN "a" ELSE "b"]
    ELSE call.args.response

CallWindow ==
    IF instruction.cls = "NumberOfSentences" THEN 2
    ELSE IF instruction.cls = "NumberOfWords" THEN 25
    ELSE 5

\* C1: for each of the four relations a count-based checker returns
\* at most -> actual <= threshold, at least -> actual >= threshold,
\* less than -> actual < threshold, around -> |actual - threshold| <= window
C1_RelationVerdict ==
    (CountDone /\ call.args.relation \in {"at most", "at least", "around", "less than"})
    => LET actual == CallCount
           threshold == call.args.threshold
           relation == call.args.relation
       IN /\ relation = "at most" => (ret = "True" <=> actual <= threshold)
          /\ relation = "at least" => (ret = "True" <=> actual >= threshold)
          /\ relation = "less than" => (ret = "True" <=> actual < threshold)
          /\ relation = "around" =>
                (ret = "True" <=> Abs(actual - threshold) <= CallWindow)
          /\ ret \in {"True", "False"}

\* the boundary: a count equal to the threshold satisfies "at most"
C1_Witness ==
    /\ CountDone
    /\ instruction.cls = "KeywordFrequencyChecker"
    /\ call.args.relation = "at most"
    /\ CallCount = call.args.threshold
    /\ ret = "True"

\* C2 (as claimed): a count-based check with a relation that is none of the
\* four, or with no relation, fails with an error and returns nothing
C2_UnknownRelationRaises ==
    (CountDone /\ call.args.relation \notin {"at most", "at least", "around", "less than"})
    => ret \notin {"True", "False", "None"}

\* C3: under "around" number_sentences accepts exactly the counts within 2 of
\* the threshold, number_words those within 25, the three frequency checkers
\* those within 5
C3_AroundWindow ==
    (CountDone /\ call.args.relation = "around")
    => LET d == Abs(CallCount - call.args.threshold)
       IN /\ instruction_id = "length_constraints:number_sentences"
                => (ret = "True" <=> d <= 2)
          /\ instruction_id = "length_constraints:number_words"
                => (ret = "True" <=> d <= 25)
          /\ instruction_id \in {"keywords:frequency", "keywords:letter_frequency",
                                 "change_case:capital_word_frequency"}
                => (ret = "True" <=> d <= 5)
          /\ ret = "False" <=> ret # "True"

\* a word count 26 below the threshold is rejected
C3_Witness ==
    /\ CountDone
    /\ call.args.relation = "around"
    /\ instruction_id = "length_constraints:number_words"
    /\ call.args.threshold - CallCount = 26
    /\ ret = "False"

\* the catalog of constraint ids
CatalogIds ==
    {"keywords:existence", "keywords:frequency", "keywords:forbidden_words",
     "keywords:letter_frequency", "language:response_language",
     "length_constraints:number_sentences", "length_constraints:number_paragraphs",
     "length_constraints:number_words", "length_constraints:nth_paragraph_first_word",
     "detectable_content:number_placeholders", "detectable_content:postscript",
     "detectable_format:number_bullet_lists", "detectable_format:constrained_response",
     "detectable_format:number_highlighted_sections",
     "detectable_format:multiple_sections", "detectable_format:json_format",
     "detectable_format:title", "combination:two_responses",
     "combination:repeat_prompt", "startend:end_checker", "startend:quotation",
     "change_case:capital_word_frequency", "change_case:english_capital",
     "change_case:english_lowercase", "punctuation:no_comma"}

\* C7: each of the 25 catalog ids resolves to one checker class that no other
\* catalog id resolves to; resolving any other id fails with an error and
\* yields no checker
C7_RegistryDomain ==
    /\ Cardinality(CatalogIds) = 25
    /\ pc # "resolve" =>
          IF call.id \in CatalogIds
          THEN /\ ret # "KeyError"
               /\ instruction.cls \notin {"None", "KeyError"}
               /\ \A other \in CatalogIds \ {call.id} :
                      Lookup(other) # instruction.cls
          ELSE /\ ret = "KeyError"
               /\ instruction = NoInstance
               /\ pc = "done"

\* the checker class that exists but is not registered does not resolve
C7_Witness ==
    /\ pc = "done"
    /\ instruction_id = "startend:constrained_start"
    /\ ret = "KeyError"

\* C10: when langdetect.detect raises, response_language returns False and
\* english_capital and english_lowercase return True; the call returns a
\* verdict, the exception does not reach the caller
C10_DetectionFailure ==
    (pc = "done" /\ detect_calls = "raised")
    => /\ instruction_id = "language:response_language" => ret = "False"
       /\ instruction_id \in {"change_case:english_capital",
                              "change_case:english_lowercase"} => ret = "True"
       /\ ret \in {"True", "False"}

\* detection fails on an all-lowercase response given to english_lowercase
C10_Witness ==
    /\ pc = "done"
    /\ detect_calls = "raised"
    /\ instruction_id = "change_case:english_lowercase"
    /\ call.args.response.case = "lower"
    /\ ret = "True"

\* the response of the test case passes the case test of its constraint:
\* str.isupper() for english_capital, str.islower() for english_lowercase
PassesCaseTest ==
    \/ /\ instruction_id = "change_case:english_capital"
       /\ call.args.response.case = "upper"
    \/ /\ instruction_id = "change_case:english_lowercase"
       /\ call.args.response.case = "lower"

\* C26: english_capital and english_lowercase consult language detection
\* only for a response that passes the case test: a response that fails it
\* gets False without detection being called, so the fail-open True comes
\* only with responses that pass the case test
C26_DetectionOnlyAfterCaseTest ==
    (pc = "done" /\ instruction_id \in {"change_case:english_capital",
                                        "change_case:english_lowercase"})
    => /\ ~PassesCaseTest => (ret = "False" /\ detect_calls = "not called")
       /\ PassesCaseTest => detect_calls \in {"returned", "raised"}
       /\ (ret = "True" /\ call.args.response.detect = "LangDetectException")
             => (PassesCaseTest /\ detect_calls = "raised")

\* a lower-case response on which detection would fail, given to
\* english_capital
C26_Witness ==
    /\ pc = "done"
    /\ instruction_id = "change_case:english_capital"
    /\ call.args.response = [case |-> "lower", detect |-> "LangDetectException"]
    /\ detect_calls = "not called"
    /\ ret = "False"

\* the test case at hand went through check_following
CheckDone == pc = "done" /\ instruction.cls # "None"

\* the keyword arguments the constraint of the test case requires that the
\* caller left out
OmittedArgs ==
    CASE instruction.cls \in CountClasses ->
            IF call.args.relation = "None" THEN {"relation"} ELSE {}
      [] instruction.cls = "ResponseLanguageChecker" ->
            IF call.args.language = "None" THEN {"language"} ELSE {}
      [] instruction.cls = "EndChecker" ->
            IF call.args.end_phrase = NoneArg THEN {"end_phrase"} ELSE {}
      [] instruction.cls = "RepeatPromptThenAnswer" ->
            IF call.args.prompt_to_repeat = NoneArg THEN {"prompt_to_repeat"} ELSE {}
      [] instruction.cls = "KeywordChecker" ->
            IF call.args.keywords = NoneArg THEN {"keywords"} ELSE {}
      [] instruction.cls = "ForbiddenWords" ->
            IF call.args.forbidden_words = NoneArg THEN {"forbidden_words"} ELSE {}
      [] OTHER -> {}

\* the argument bundle of the test case is well formed: nothing is left out
\* and the relation is one of the four
WellFormedArgs ==
    /\ OmittedArgs = {}
    /\ instruction.cls \in CountClasses => call.args.relation \in COMPARISON_RELATION

\* the response of the test case cannot be read as its constraint intends:
\* the language of the text cannot be detected, the text is no JSON, or it
\* has no nth paragraph
CannotBeParsed ==
    CASE instruction.cls \in LanguageClasses -> detect_calls = "raised"
      [] instruction.cls = "JsonFormat" -> call.args.response.loads # "value"
      [] instruction.cls = "ParagraphFirstWordCheck" ->
            call.args.nth_paragraph >
                Cardinality({i \in 1..Len(re_split("blank line", call.args.response)) :
                    ~Blank(re_split("blank line", call.args.response)[i])})
      [] OTHER -> FALSE

\* C11 (as claimed): on any response, with a well-formed argument bundle,
\* every checker returns True or False and raises nothing, and it returns
\* False for a response that cannot be parsed as the constraint intends
C11_BooleanAndFalseOnMalformed ==
    (CheckDone /\ WellFormedArgs)
    => /\ ret \in {"True", "False"}
       /\ CannotBeParsed => ret = "False"

\* C12 (as claimed): a check call that leaves out a required named argument
\* fails with an error and returns no verdict
C12_OmittedArgumentFails ==
    (CheckDone /\ OmittedArgs # {})
    => ret \in {"TypeError", "AttributeError", "ValueError", "KeyError"}

(***************************************************************************)
(* conflict_make(conflicts).  The dictionary maps instruction ids to sets  *)
(* of instruction ids, each value a set object of its own.  The loop       *)
(* visits the keys in the dictionary's order and the members of a set in   *)
(* the set's order; both are left open.                                    *)
(***************************************************************************)
ConflictIds == {"A", "B", "C"}

\* conflicts[k].add(key) for every k of `ks`
AddKeyUnion(T, ks, key) ==
    [x \in DOMAIN T |-> IF x \in ks THEN T[x] \cup T[key] ELSE T[x]]

AddKeySwapped(T, ks, key) ==
    [x \in DOMAIN T |-> IF x = key THEN T[x] \cup ks ELSE T[x]]

AddKey(T, ks, key) ==
    [x \in DOMAIN T |-> IF x \in ks THEN T[x] \cup {key} ELSE T[x]]

\* conflicts[key].add(key)
AddSelf(T, key) == [T EXCEPT ![key] = @ \cup {key}]

\* a loop that leaves out the members that are no keys
RECURSIVE RunLoopSkipMissing(_, _)
RunLoopSkipMissing(T, todo) ==
    IF todo = {} THEN {[status |-> "returned", table |-> T]}
    ELSE UNION {
        RunLoopSkipMissing(AddSelf(AddKey(T, T[key] \cap DOMAIN T, key), key),
                           todo \ {key})
        : key \in todo}

\* The loop from the keys still to visit.  conflicts[k] raises KeyError for
\* a member k that is no key; the members visited before it have been
\* updated by then, and which those are depends on the set's order.
RECURSIVE RunLoop(_, _)
RunLoop(T, todo) ==
    IF todo = {} THEN {[status |-> "returned", table |-> T]}
    ELSE UNION {
        IF T[key] \subseteq DOMAIN T
        THEN RunLoop(AddSelf(AddKey(T, T[key], key), key), todo \ {key})
        ELSE {[status |-> "KeyError", table |-> AddKey(T, done, key)] :
                 done \in SUBSET (T[key] \cap DOMAIN T)}
        : key \in todo}

\* what the caller's dictionary holds after the call: the loop works on the
\* argument itself and `return conflicts` hands the same object back
ArgumentCopied(before, after) == before

ArgumentAfter(before, after) == after

conflict_make ==
    /\ Len(cm_results) < MaxCalls
    /\ \E out \in RunLoop(conflicts, DOMAIN conflicts) :
          /\ conflicts' = ArgumentAfter(conflicts, out.table)
          /\ cm_before' = Append(cm_before, conflicts)
          /\ cm_results' = Append(cm_results,
                IF out.status = "returned" THEN out
                ELSE [status |-> "KeyError", table |-> "None"])
    /\ UNCHANGED <<checker_vars, thread_vars, gen_vars>>

CheckerIdle ==
    /\ call = "None"
    /\ instruction_id = "None"
    /\ instruction = NoInstance
    /\ ret = "None"
    /\ prior = NoInstance
    /\ pc = "idle"
    /\ detect_calls = "not called"
    /\ registry = INSTRUCTION_DICT

\* the dictionaries a caller may pass: any keys, any sets
InitConflict ==
    /\ conflicts \in UNION {[K -> SUBSET ConflictIds] : K \in SUBSET ConflictIds}
    /\ cm_before = <<>>
    /\ cm_results = <<>>
    /\ CheckerIdle
    /\ ThreadsIdle
    /\ GenIdle

SpecConflict == InitConflict /\ [][conflict_make]_vars

(***************************************************************************)
(* Claims checked under SpecConflict.                                      *)
(***************************************************************************)
LastCall == Len(cm_results)

Returned(i) == i \in 1..Len(cm_results) /\ cm_results[i].status = "returned"

C5_SymmetricReflexive ==
    \A i \in 1..Len(cm_results) :
        Returned(i) =>
            LET R == cm_results[i].table
            IN \A a \in DOMAIN R :
                  /\ a \in R[a]
                  /\ \A b \in R[a] : b \in DOMAIN R /\ a \in R[b]

\* a set that was extended while an earlier key was visited: C is added to
\* B's set when C is visited, A is added to it when A is visited
C5_Witness ==
    /\ Returned(1)
    /\ cm_before[1] = ("A" :> {"B"}) @@ ("B" :> {}) @@ ("C" :> {"B"})
    /\ cm_results[1].table["B"] = {"A", "B", "C"}

\* C6 (as claimed): conflict_make is pure: after the call the caller's
\* mapping and every set in it hold what they held before the call
C6_ArgumentUntouched ==
    LastCall >= 1 => conflicts = cm_before[LastCall]

\* C6 (amended): conflict_make works on the caller's mapping itself and
\* returns it: after a call that returns, the caller's mapping is the
\* returned table, with the keys it had and every set holding at least what
\* it held before
C6_UpdatedInPlace ==
    Returned(LastCall) =>
        /\ conflicts = cm_results[LastCall].table
        /\ DOMAIN conflicts = DOMAIN cm_before[LastCall]
        /\ \A a \in DOMAIN conflicts : cm_before[LastCall][a] \subseteq conflicts[a]

\* a call that returned and left the caller's sets larger than they were
C6_Witness ==
    /\ Returned(1) /\ LastCall = 1
    /\ cm_before[1] = ("A" :> {"B"}) @@ ("B" :> {})
    /\ conflicts = ("A" :> {"A", "B"}) @@ ("B" :> {"A", "B"})

(***************************************************************************)
(* SpecSeq: one checker instance is built and check_following is called on *)
(* it again and again, with any responses and arguments.                   *)
(***************************************************************************)
SeqCount ==
    /\ instruction.cls \in CountClasses
    /\ \E a \in CountCalls(instruction.cls, SeqMaxCount, 1..SeqMaxThreshold) :
          LET out == CountCheck(instruction, a.response, a.key, a.threshold,
                                a.relation)
          IN /\ instruction' = out.self
             /\ ret' = out.ret
             /\ call' = [id |-> instruction_id, args |-> a]
    /\ prior' = instruction
    /\ UNCHANGED <<instruction_id, pc, detect_calls, registry, conflict_vars,
                   thread_vars, gen_vars>>

SeqLanguage ==
    /\ instruction.cls \in LanguageClasses
    /\ \E a \in LanguageCalls(instruction.cls) :
          LET out == LanguageCheck(instruction, a.response, a.language)
          IN /\ instruction' = out.self
             /\ ret' = out.ret
             /\ call' = [id |-> instruction_id, args |-> a]
             /\ detect_calls' = DetectCall(instruction.cls, a.response)
    /\ prior' = instruction
    /\ UNCHANGED <<instruction_id, pc, registry, conflict_vars, thread_vars, gen_vars>>

InitSeq ==
    /\ \E cls \in CountClasses \cup LanguageClasses :
          /\ instruction_id = IdOf(cls)
          /\ instruction = NewInstance(cls)
    /\ call = "None"
    /\ ret = "None"
    /\ prior = NoInstance
    /\ pc = "check"
    /\ detect_calls = "not called"
    /\ registry = INSTRUCTION_DICT
    /\ ConflictIdle
    /\ ThreadsIdle
    /\ GenIdle

SpecSeq == InitSeq /\ [][SeqCount \/ SeqLanguage]_vars

(***************************************************************************)
(* Claims checked under SpecSeq.                                           *)
(***************************************************************************)
\* what the same call returns on an instance that has served no call
FreshVerdict ==
    IF instruction.cls \in CountClasses
    THEN CountCheck(NewInstance(instruction.cls), call.args.response,
                    call.args.key, call.args.threshold, call.args.relation).ret
    ELSE LanguageCheck(NewInstance(instruction.cls), call.args.response,
                       call.args.language).ret

\* C9: the verdict of a check is the same after any sequence of earlier
\* checks on the same instance: it is the verdict the call gets on a fresh
\* instance, whatever attributes the earlier calls left behind
C9_OrderIndependent ==
    prior.cls # "None" => ret = FreshVerdict

\* a call without a relation on an instance whose earlier call stored
\* "at least", a threshold and the other letter: the stored values would
\* have given True
C9_Witness ==
    /\ prior.cls # "None"
    /\ instruction.cls = "LetterFrequencyChecker"
    /\ prior.relation = "at least"
    /\ prior.key = "a"
    /\ prior.threshold = 1
    /\ call.args.key = "B "
    /\ call.args.threshold = 2
    /\ call.args.response["a"] = 3
    /\ call.args.relation = "None"
    /\ ret = "None"

(***************************************************************************)
(* SpecThreads: two threads each make one check_following call on a        *)
(* count-based checker, on one shared instance or on an instance each,     *)
(* with no lock.  A thread may be preempted between any two reads or       *)
(* writes of an attribute of self; its local variables are its own.        *)
(***************************************************************************)
Threads == {1, 2}

\* the relations in the order the if/elif chain tests them
Chain == <<"at most", "at least", "around", "less than">>

\* the return statement of the branch that matched
BranchVerdict(branch, actual, threshold, window) ==
    CASE branch = 1 -> Bool(actual <= threshold)
      [] branch = 2 -> Bool(actual >= threshold)
      [] branch = 3 -> Bool(Abs(actual - threshold) <= window)
      [] branch = 4 -> Bool(actual < threshold)

\* the instance whose attributes a thread's call reads and writes: self
SelfOfClass(t) == 1

SelfOf(t) == t_inst[t]

FirstStep(cls) == IF cls \in KeyedClasses THEN "store_key" ELSE "store_threshold"

\* self._keyword = keyword.strip() / self._letter = letter.strip().lower()
StoreKey(t) ==
    /\ t_pc[t] = "store_key"
    /\ attrs' = [attrs EXCEPT ![SelfOf(t)].key =
                    IF attrs[SelfOf(t)].cls = "LetterFrequencyChecker"
                    THEN Lower(Strip(t_args[t].key)) ELSE Strip(t_args[t].key)]
    /\ t_pc' = [t_pc EXCEPT ![t] = "store_threshold"]
    /\ UNCHANGED <<t_inst, t_args, t_local, t_ret, checker_vars, conflict_vars,
                   gen_vars>>

\* self._num_sentences_threshold = num_sentences (self._num_words,
\* self._frequency)
StoreThreshold(t) ==
    /\ t_pc[t] = "store_threshold"
    /\ attrs' = [attrs EXCEPT ![SelfOf(t)].threshold = t_args[t].threshold]
    /\ t_pc' = [t_pc EXCEPT ![t] = "store_relation"]
    /\ UNCHANGED <<t_inst, t_args, t_local, t_ret, checker_vars, conflict_vars,
                   gen_vars>>

\* self._comparison_relation = relation; LetterFrequencyChecker counts the
\* letters of the response into a local Counter and goes on to the chain
StoreRelation(t) ==
    /\ t_pc[t] = "store_relation"
    /\ attrs' = [attrs EXCEPT ![SelfOf(t)].relation = t_args[t].relation]
    /\ t_pc' = [t_pc EXCEPT ![t] =
                    IF attrs[SelfOf(t)].cls = "LetterFrequencyChecker"
                    THEN "test" ELSE "measure"]
    /\ UNCHANGED <<t_inst, t_args, t_local, t_ret, checker_vars, conflict_vars,
                   gen_vars>>

\* the count, into a local variable.  KeywordFrequencyChecker builds its
\* pattern from self._keyword before the chain; LetterFrequencyChecker reads
\* letters[self._letter] in the return statement of the branch that matched
MeasureStep(t) ==
    /\ t_pc[t] = "measure"
    /\ t_local' = [t_local EXCEPT ![t].actual =
                      Measure(attrs[SelfOf(t)], t_args[t].response)]
    /\ t_pc' = [t_pc EXCEPT ![t] =
                    IF attrs[SelfOf(t)].cls = "LetterFrequencyChecker"
                    THEN "return" ELSE "test"]
    /\ UNCHANGED <<attrs, t_inst, t_args, t_ret, checker_vars, conflict_vars,
                   gen_vars>>

\* one `self._comparison_relation == "..."` test of the chain
TestStep(t) ==
    /\ t_pc[t] = "test"
    /\ IF attrs[SelfOf(t)].relation = Chain[t_local[t].branch]
       THEN /\ t_pc' = [t_pc EXCEPT ![t] =
                          IF attrs[SelfOf(t)].cls = "LetterFrequencyChecker"
                          THEN "measure" ELSE "return"]
            /\ UNCHANGED <<t_local, t_ret>>
       ELSE IF t_local[t].branch < Len(Chain)
       THEN /\ t_local' = [t_local EXCEPT ![t].branch = @ + 1]
            /\ UNCHANGED <<t_pc, t_ret>>
       ELSE /\ t_pc' = [t_pc EXCEPT ![t] = "done"]
            /\ t_ret' = [t_ret EXCEPT ![t] = "None"]
            /\ UNCHANGED t_local
    /\ UNCHANGED <<attrs, t_inst, t_args, checker_vars, conflict_vars,
                   gen_vars>>

\* the return statement of the matched branch reads the threshold from self
ReturnStep(t) ==
    /\ t_pc[t] = "return"
    /\ t_ret' = [t_ret EXCEPT ![t] =
                    BranchVerdict(t_local[t].branch, t_local[t].actual,
                                  attrs[SelfOf(t)].threshold,
                                  Window(attrs[SelfOf(t)].cls))]
    /\ t_pc' = [t_pc EXCEPT ![t] = "done"]
    /\ UNCHANGED <<attrs, t_inst, t_args, t_local, checker_vars, conflict_vars,
                   gen_vars>>

\* one or two instances of a class and the threads' pending calls: any
\* response and key, a threshold, and one of the four relations
InitThreads ==
    /\ \E cls \in CountClasses :
          /\ attrs = [i \in {1, 2} |-> NewInstance(cls)]
          /\ t_args \in [Threads ->
                {a \in CountCalls(cls, ThreadMaxCount, 1..ThreadMaxThreshold) :
                    a.relation \in COMPARISON_RELATION}]
          /\ t_pc = [t \in Threads |-> FirstStep(cls)]
    /\ t_inst \in {[t \in Threads |-> 1], [t \in Threads |-> t]}
    /\ t_local = [t \in Threads |-> [actual |-> "unset", branch |-> 1]]
    /\ t_ret = [t \in Threads |-> "None"]
    /\ CheckerIdle
    /\ ConflictIdle
    /\ GenIdle

SpecThreads ==
    /\ InitThreads
    /\ [][\E t \in Threads :
               \/ StoreKey(t)
               \/ StoreThreshold(t)
               \/ StoreRelation(t)
               \/ MeasureStep(t)
               \/ TestStep(t)
               \/ ReturnStep(t)]_vars

(***************************************************************************)
(* Claims checked under SpecThreads.                                       *)
(***************************************************************************)
\* the verdict a call's own response and arguments determine: what the call
\* returns when it runs alone on an instance of its own
OwnVerdict(t) ==
    CountCheck(NewInstance(attrs[1].cls), t_args[t].response, t_args[t].key,
               t_args[t].threshold, t_args[t].relation).ret

\* C8 (as claimed): in any interleaving of two unsynchronized check calls,
\* also of two calls on the same instance, each call returns the verdict its
\* own response and arguments determine
C8_OwnVerdict ==
    \A t \in Threads : t_pc[t] = "done" => t_ret[t] = OwnVerdict(t)

\* C8 (amended): in any interleaving of two unsynchronized check calls on
\* two different checker instances, each call returns the verdict its own
\* response and arguments determine
C8_OwnVerdictOnOwnInstance ==
    t_inst[1] # t_inst[2] =>
        \A t \in Threads : t_pc[t] = "done" => t_ret[t] = OwnVerdict(t)

\* two calls on an instance each, with different arguments and different
\* verdicts, both finished
C8_Witness ==
    /\ t_inst[1] # t_inst[2]
    /\ \A t \in Threads : t_pc[t] = "done"
    /\ attrs[1].cls = "NumberOfWords"
    /\ t_args[1].relation = "at most" /\ t_args[2].relation = "less than"
    /\ t_args[1].threshold = t_args[1].response
    /\ t_args[2] = [t_args[1] EXCEPT !.relation = "less than"]
    /\ t_ret[1] = "True" /\ t_ret[2] = "False"

(***************************************************************************)
(* SpecArgs: a caller holds one keywords (forbidden_words) list and checks *)
(* response after response against it; each check looks the id up in the   *)
(* registry, builds an instance and calls check_following with the list.   *)
(***************************************************************************)
\* the list the caller holds
HeldList ==
    IF call.id = "keywords:existence" THEN call.args.keywords
    ELSE call.args.forbidden_words

ArgsKeywords ==
    /\ registry[call.id] = "KeywordChecker"
    /\ \E response \in TextsOf(WordPieces, SmallPieces) :
          LET out == KeywordCheck(NewInstance(registry[call.id]), response,
                                  call.args.keywords)
          IN /\ instruction' = out.self
             /\ ret' = out.ret
             /\ call' = [call EXCEPT
                           !.args = [response |-> response,
                                     keywords |-> ListAfter(call.args.keywords,
                                                            out.self.key)]]
    /\ prior' = instruction
    /\ UNCHANGED <<instruction_id, pc, detect_calls, registry, conflict_vars,
                   thread_vars, gen_vars>>

ArgsForbidden ==
    /\ registry[call.id] = "ForbiddenWords"
    /\ \E response \in TextsOf(WordPieces, SmallPieces) :
          LET out == ForbiddenCheck(NewInstance(registry[call.id]), response,
                                    call.args.forbidden_words)
          IN /\ instruction' = out.self
             /\ ret' = out.ret
             /\ call' = [call EXCEPT
                           !.args = [response |-> response,
                                     forbidden_words |->
                                         ListAfter(call.args.forbidden_words,
                                                   out.self.key)]]
    /\ prior' = instruction
    /\ UNCHANGED <<instruction_id, pc, detect_calls, registry, conflict_vars,
                   thread_vars, gen_vars>>

InitArgs ==
    /\ \E list \in WordLists(MaxListLen) :
          \/ call = [id |-> "keywords:existence",
                     args |-> [response |-> <<>>, keywords |-> list]]
          \/ call = [id |-> "keywords:forbidden_words",
                     args |-> [response |-> <<>>, forbidden_words |-> list]]
    /\ instruction_id = call.id
    /\ instruction = NoInstance
    /\ ret = "None"
    /\ prior = NoInstance
    /\ pc = "check"
    /\ detect_calls = "not called"
    /\ registry = INSTRUCTION_DICT
    /\ ConflictIdle
    /\ ThreadsIdle
    /\ GenIdle

SpecArgs == InitArgs /\ [][ArgsKeywords \/ ArgsForbidden]_vars

(***************************************************************************)
(* Claims checked under SpecArgs.                                          *)
(***************************************************************************)
\* C13: no check changes the registry or the caller's arguments: across
\* every check INSTRUCTION_DICT keeps its entries and the keywords
\* (forbidden_words) list keeps its entries, their order and its duplicates
C13_RegistryAndArgsUnchanged ==
    [][/\ registry' = registry
       /\ registry' = INSTRUCTION_DICT
       /\ HeldList' = HeldList]_vars

\* a check that stored a list other than the caller's: the caller's list
\* was not in sorted order
C13_Witness ==
    /\ instruction.cls = "KeywordChecker"
    /\ call.args.keywords = <<<<"a", "c">>, <<"a">>>>
    /\ instruction.key = <<<<"a">>, <<"a", "c">>>>
    /\ call.args.response = <<"A", "c">>
    /\ ret = "False"

(***************************************************************************)
(* One specification per checker that reads the text: a test case of that  *)
(* checker, with responses of more pieces than Spec draws, is looked up    *)
(* and checked.                                                            *)
(***************************************************************************)
\* a test case of the constraint `id`, not yet resolved
InitCall(id, calls) ==
    /\ \E a \in calls : call = [id |-> id, args |-> a]
    /\ instruction_id = "None"
    /\ instruction = NoInstance
    /\ ret = "None"
    /\ prior = NoInstance
    /\ pc = "resolve"
    /\ detect_calls = "not called"
    /\ registry = INSTRUCTION_DICT
    /\ ConflictIdle
    /\ ThreadsIdle
    /\ GenIdle

SpecParagraphs ==
    /\ InitCall("length_constraints:number_paragraphs",
                ParagraphCalls(ParagraphMaxPieces))
    /\ [][Resolve \/ CheckParagraphs]_vars

(***************************************************************************)
(* Claims checked under SpecParagraphs.                                    *)
(***************************************************************************)
\* the segments between the dividers of the response at hand
DividerSegments == re_split("divider", call.args.response)

\* a blank segment between two dividers
InteriorBlank(segments) ==
    \E i \in 2..(Len(segments) - 1) : Blank(segments[i])

\* the segments, not counting a blank first and a blank last one
CountedSegments(segments) ==
    Cardinality({i \in 1..Len(segments) :
                    ~(Blank(segments[i]) /\ i \in {1, Len(segments)})})

\* C14: number_paragraphs returns True iff no segment between two dividers
\* is blank and the number of segments, not counting a blank first and a
\* blank last one, equals num_paragraphs; 'A***B***A' has 3 paragraphs and
\* '***A***' has 1
C14_ParagraphVerdict ==
    (pc = "done" /\ instruction.cls = "ParagraphChecker")
    => /\ ret \in {"True", "False"}
       /\ ret = "True" <=>
             /\ ~InteriorBlank(DividerSegments)
             /\ CountedSegments(DividerSegments) = call.args.num_paragraphs
       /\ InteriorBlank(DividerSegments) => ret = "False"
       /\ call.args.response = <<"A">> \o Stars(3) \o <<"B">> \o Stars(3) \o <<"A">>
             => (ret = "True" <=> call.args.num_paragraphs = 3)
       /\ call.args.response = Stars(3) \o <<"A">> \o Stars(3)
             => (ret = "True" <=> call.args.num_paragraphs = 1)

\* two dividers with nothing but a blank between them: False although the
\* two paragraphs around them are the number asked for
C14_Witness ==
    /\ pc = "done"
    /\ instruction.cls = "ParagraphChecker"
    /\ call.args.response = <<"A">> \o Stars(3) \o <<" ">> \o Stars(3) \o <<"B">>
    /\ call.args.num_paragraphs = 2
    /\ ret = "False"

SpecTwoResponses ==
    /\ InitCall("combination:two_responses", TwoResponsesCalls(TwoMaxPieces))
    /\ [][Resolve \/ CheckTwoResponses]_vars

(***************************************************************************)
(* Claims checked under SpecTwoResponses.                                  *)
(***************************************************************************)
\* the asterisks that stand at i..j are a whole run: no asterisk before it,
\* none behind it
WholeRun(s, i, j) ==
    /\ \A k \in i..j : s[k] = "*"
    /\ i = 1 \/ s[i - 1] # "*"
    /\ j = Len(s) \/ s[j + 1] # "*"

\* where the separators of s begin: the whole runs of exactly six asterisks
SeparatorStarts(s) == {i \in 1..(Len(s) - 5) : WholeRun(s, i, i + 5)}

\* the segments of s between its separators, in order
RECURSIVE SegmentsFrom(_, _)
SegmentsFrom(s, from) ==
    LET later == {i \in SeparatorStarts(s) : i >= from}
    IN IF later = {} THEN <<SubSeq(s, from, Len(s))>>
       ELSE LET next == CHOOSE i \in later : \A j \in later : i <= j
            IN <<SubSeq(s, from, next - 1)>> \o SegmentsFrom(s, next + 6)

\* a segment without the blank first and the blank last one
KeptSegments(segments) ==
    SelectSeq([i \in 1..Len(segments) |->
                  IF Blank(segments[i]) /\ i \in {1, Len(segments)}
                  THEN <<"dropped">> ELSE segments[i]],
              LAMBDA x : x # <<"dropped">>)

\* C15: two_responses returns True iff, splitting at the runs of exactly six
\* asterisks, no segment between two separators is blank, exactly two
\* segments remain once a blank first and a blank last segment are dropped,
\* and the two differ after trimming; runs of another length separate
\* nothing
C15_TwoResponsesVerdict ==
    (pc = "done" /\ instruction.cls = "TwoResponsesChecker")
    => LET segments == SegmentsFrom(call.args.response, 1)
           kept == KeptSegments(segments)
       IN /\ ret \in {"True", "False"}
          /\ ret = "True" <=>
                /\ ~InteriorBlank(segments)
                /\ Len(kept) = 2
                /\ str_strip(kept[1], Whitespace) # str_strip(kept[2], Whitespace)
          /\ SeparatorStarts(call.args.response) = {} => ret = "False"

\* seven asterisks between two different answers separate nothing
C15_Witness ==
    /\ pc = "done"
    /\ instruction.cls = "TwoResponsesChecker"
    /\ call.args.response = <<"A">> \o Stars(7) \o <<"B">>
    /\ ret = "False"

SpecFirstWord ==
    /\ InitCall("length_constraints:nth_paragraph_first_word",
                FirstWordCalls(FirstWordMaxPieces))
    /\ [][Resolve \/ CheckFirstWord]_vars

(***************************************************************************)
(* Claims checked under SpecFirstWord.                                     *)
(***************************************************************************)
\* the paragraphs of the response at hand: its segments between blank-line
\* pairs that are not blank
Paragraphs ==
    SelectSeq(re_split("blank line", call.args.response), LAMBDA p : ~Blank(p))

\* C16 (as claimed): nth_paragraph_first_word returns True iff the response
\* has num_paragraphs non-empty paragraphs and the first token of the nth
\* of them, without quotes and punctuation and in lower case, is first_word;
\* it returns False, and raises nothing, when there is no nth paragraph
C16_NthParagraphFirstWord ==
    (pc = "done" /\ instruction.cls = "ParagraphFirstWordCheck")
    => /\ ret \in {"True", "False"}
       /\ call.args.nth_paragraph > Len(Paragraphs) => ret = "False"
       /\ ret = "True" <=>
             /\ Len(Paragraphs) = call.args.num_paragraphs
             /\ call.args.nth_paragraph <= Len(Paragraphs)
             /\ FirstWordOf(Paragraphs[call.args.nth_paragraph])
                   = call.args.first_word

\* the raw list of segments of the response at hand, blank ones included
Segments == re_split("blank line", call.args.response)

\* where the nth paragraph stands in that list, 1 <= nth <= Len(Paragraphs)
ParagraphAt(nth) ==
    CHOOSE i \in 1..Len(Segments) :
        /\ ~Blank(Segments[i])
        /\ Cardinality({j \in 1..i : ~Blank(Segments[j])}) = nth

SpecEnd ==
    /\ InitCall("startend:end_checker", EndCalls(EndMaxPieces))
    /\ [][Resolve \/ CheckEnd]_vars

(***************************************************************************)
(* Claims checked under SpecEnd.                                           *)
(***************************************************************************)
\* a text trimmed, without one layer of surrounding double quotes, in lower
\* case
OneLayerNormalized(s) ==
    LET v == str_strip(s, Whitespace)
    IN str_lower(IF Len(v) >= 2 /\ Head(v) = "\"" /\ v[Len(v)] = "\""
                 THEN SubSeq(v, 2, Len(v) - 1) ELSE v)

\* C17 (as claimed): end_checker normalizes the response and end_phrase the
\* same way (trim, strip one layer of surrounding double quotes, lower case)
\* and returns True iff the normalized response ends with the normalized
\* phrase
C17_EndVerdict ==
    (pc = "done" /\ instruction.cls = "EndChecker"
        /\ call.args.end_phrase # NoneArg)
    => /\ ret \in {"True", "False"}
       /\ ret = "True" <=>
             str_endswith(OneLayerNormalized(call.args.response),
                          OneLayerNormalized(call.args.end_phrase))

SpecRepeat ==
    /\ InitCall("combination:repeat_prompt", RepeatCalls(RepeatMaxPieces))
    /\ [][Resolve \/ CheckRepeatPrompt]_vars

(***************************************************************************)
(* Claims checked under SpecRepeat.                                        *)
(***************************************************************************)
\* a text trimmed, in lower case, without its punctuation marks
TrimmedFoldedBare(s) ==
    LET folded == str_lower(str_strip(s, Whitespace))
    IN SelectSeq(folded, LAMBDA c : c \notin Punctuation)

\* C18: repeat_prompt returns True iff the response, trimmed, case-folded
\* and without punctuation, begins with prompt_to_repeat normalized the
\* same way: for the prompt 'T j.' the response 's, t j.' gives False and
\* 'T j. s' gives True
C18_RepeatVerdict ==
    (pc = "done" /\ instruction.cls = "RepeatPromptThenAnswer"
        /\ call.args.prompt_to_repeat # NoneArg)
    => LET value == TrimmedFoldedBare(call.args.response)
           prompt == TrimmedFoldedBare(call.args.prompt_to_repeat)
       IN /\ ret \in {"True", "False"}
          /\ ret = "True" <=>
                /\ Len(prompt) <= Len(value)
                /\ \A i \in 1..Len(prompt) : value[i] = prompt[i]
          /\ call.args.prompt_to_repeat = <<"T", " ", "j", ".">> =>
                /\ call.args.response = <<"s", ",", " ", "t", " ", "j", ".">>
                      => ret = "False"
                /\ call.args.response = <<"T", " ", "j", ".", " ", "s">>
                      => ret = "True"

\* a word before the repeated prompt
C18_Witness ==
    /\ pc = "done"
    /\ instruction.cls = "RepeatPromptThenAnswer"
    /\ call.args.prompt_to_repeat = <<"T", " ", "j", ".">>
    /\ call.args.response = <<"s", ",", " ", "t", " ", "j", ".">>
    /\ ret = "False"

(***************************************************************************)
(* SpecWords: a test case of keywords:existence or of                      *)
(* keywords:forbidden_words is looked up and checked.                      *)
(***************************************************************************)
SpecWords ==
    /\ \/ InitCall("keywords:existence",
                   KeywordCalls(WordMaxPieces, MaxListLen))
       \/ InitCall("keywords:forbidden_words",
                   ForbiddenCalls(WordMaxPieces, MaxListLen))
    /\ [][Resolve \/ CheckKeywords \/ CheckForbidden]_vars

(***************************************************************************)
(* Claims checked under SpecWords.                                         *)
(***************************************************************************)
SameLetter(c, d) == str_lower(<<c>>) = str_lower(<<d>>)

\* the word stands in the text at some place, letter for letter whatever
\* the case, with no word character next to it on either side
WholeWordOccurrence(word, value) ==
    \E i \in 1..Len(value) :
        /\ i + Len(word) - 1 <= Len(value)
        /\ \A k \in 1..Len(word) : SameLetter(word[k], value[i + k - 1])
        /\ i > 1 => ~IsWordChar(value[i - 1])
        /\ i + Len(word) <= Len(value) => ~IsWordChar(value[i + Len(word)])

\* the lists with the same entries as `list`, in any order
Reordered(list) ==
    {l \in WordLists(MaxListLen) :
        /\ l # NoneArg
        /\ Len(l) = Len(list)
        /\ \A w \in Words :
              Cardinality({i \in 1..Len(l) : l[i] = w})
                  = Cardinality({i \in 1..Len(list) : list[i] = w})}

\* the lists with the same entries as `list`, repeated or not, in any order
SameEntries(list) ==
    {l \in WordLists(MaxListLen) : l # NoneArg /\ Range(l) = Range(list)}

C20_ForbiddenWords ==
    (pc = "done" /\ instruction.cls = "ForbiddenWords"
        /\ call.args.forbidden_words # NoneArg)
    => LET value == call.args.response
           words == call.args.forbidden_words
       IN /\ ret \in {"True", "False"}
          /\ ret = "True" <=>
                \A w \in Range(words) : ~WholeWordOccurrence(w, value)
          /\ \A l \in SameEntries(words) :
                ForbiddenCheck(NewInstance("ForbiddenWords"), value, l).ret = ret
          /\ (Len(words) = 1 /\ \A k \in 1..Len(words[1]) : IsWordChar(words[1][k]))
                => (ret = "True") #
                   (KeywordCheck(NewInstance("KeywordChecker"), value,
                                 words).ret = "True")

(***************************************************************************)
(* Further claims checked under SpecConflict.                              *)
(***************************************************************************)
\* the caller's dictionary as the i-th call left it
TableAfter(i) == IF i < Len(cm_before) THEN cm_before[i + 1] ELSE conflicts

\* a set of the table names an id that is no key of the table
NamesMissingId(T) == \E key \in DOMAIN T : ~(T[key] \subseteq DOMAIN T)

\* C25: when a conflict set names an id that is not a key of the mapping,
\* conflict_make raises KeyError, returns no table and adds no key for that
\* id to the mapping
C25_MissingIdRaises ==
    \A i \in 1..Len(cm_results) :
        NamesMissingId(cm_before[i]) =>
            /\ cm_results[i].status = "KeyError"
            /\ cm_results[i].table = "None"
            /\ DOMAIN TableAfter(i) = DOMAIN cm_before[i]

\* A conflicts with B and B is no key: the call raised and B is still none
C25_Witness ==
    /\ Len(cm_results) >= 1
    /\ cm_before[1] = ("A" :> {"B"})
    /\ cm_results[1].status = "KeyError"
    /\ DOMAIN TableAfter(1) = {"A"}

(***************************************************************************)
(* SpecBullets: a test case of detectable_format:number_bullet_lists is    *)
(* looked up and checked.  The responses are made of lines: bullets of     *)
(* both styles, text, and lines that begin with a marker and no blank.     *)
(***************************************************************************)
CheckBullets ==
    /\ pc = "check"
    /\ instruction.cls = "BulletListChecker"
    /\ Checked(BulletCheck(instruction, call.args.response, call.args.num_bullets))
    /\ UNCHANGED call

SpecBullets ==
    /\ InitCall("detectable_format:number_bullet_lists",
                [response : TextsOf({<<"*", " ", "a", "\n">>, <<"-", " ", "a", "\n">>,
                                     <<"a", "\n">>, <<"-", "a", "\n">>,
                                     <<"*", "a", "\n">>, <<"*", "\n">>},
                                    BulletMaxLines),
                 num_bullets : 0..BulletMaxLines])
    /\ [][Resolve \/ CheckBullets]_vars

(***************************************************************************)
(* Claims checked under SpecBullets.                                       *)
(***************************************************************************)
\* the lines of the response at hand that are bullets: behind the blanks the
\* line begins with, an asterisk or a hyphen and then a blank
BulletLines ==
    LET value == call.args.response
        Marker(i) ==
            CHOOSE j \in i..(Len(value) + 1) :
                /\ j = Len(value) + 1 \/ value[j] # " "
                /\ \A k \in i..(j - 1) : value[k] = " "
    IN {i \in 1..Len(value) :
          /\ i = 1 \/ value[i - 1] = "\n"
          /\ Marker(i) + 1 <= Len(value)
          /\ value[Marker(i)] \in {"*", "-"}
          /\ value[Marker(i) + 1] = " "}

\* C21 (as claimed): number_bullet_lists counts the lines that start with
\* '* ' and the lines that start with '- ', each once, and returns True iff
\* there are num_bullets of them; lines that are no bullets of either style
\* add nothing
C21_BulletCount ==
    (pc = "done" /\ instruction.cls = "BulletListChecker")
    => /\ ret \in {"True", "False"}
       /\ ret = "True" <=> Cardinality(BulletLines) = call.args.num_bullets

(***************************************************************************)
(* SpecHighlights: a test case of                                          *)
(* detectable_format:number_highlighted_sections is looked up and checked. *)
(* The responses are made of sections in single and in double asterisks,   *)
(* lone asterisks, text and newlines.                                      *)
(***************************************************************************)
CheckHighlights ==
    /\ pc = "check"
    /\ instruction.cls = "HighlightSectionChecker"
    /\ Checked(HighlightCheck(instruction, call.args.response,
                              call.args.num_highlights))
    /\ UNCHANGED call

SpecHighlights ==
    /\ InitCall("detectable_format:number_highlighted_sections",
                [response : TextsOf({<<"*", "a", "*">>, <<"*", "*", "a", "*", "*">>,
                                     Stars(1), <<"a">>, <<" ">>, <<"\n">>},
                                    HighlightMaxPieces),
                 num_highlights : 0..MaxHighlights])
    /\ [][Resolve \/ CheckHighlights]_vars

(***************************************************************************)
(* Claims checked under SpecHighlights.                                    *)
(***************************************************************************)
\* where the runs of asterisks of the response at hand start
RunStarts ==
    {i \in 1..Len(call.args.response) :
        /\ call.args.response[i] = "*"
        /\ i = 1 \/ call.args.response[i - 1] # "*"}

\* the number of asterisks of the run that starts at i
RunLen(i) ==
    CHOOSE n \in 1..Len(call.args.response) :
        /\ StarsAt(call.args.response, i, n)
        /\ ~StarsAt(call.args.response, i, n + 1)

\* the places i <= j stand in one line
SameLine(i, j) == \A k \in i..j : call.args.response[k] # "\n"

\* the run that starts at i is the n-th of its line
Rank(i) == Cardinality({j \in RunStarts : j <= i /\ SameLine(j, i)})

\* the run at j closes the span the run at i opens: it is the next run of
\* the line
Closes(j, i) == j \in RunStarts /\ j > i /\ SameLine(i, j) /\ Rank(j) = Rank(i) + 1

\* the response is marked up with single- and double-asterisk spans and
\* nothing else: in each line the runs pair off in order, each pair of one
\* length, 1 or 2
WellMarked ==
    \A i \in RunStarts :
        /\ RunLen(i) \in {1, 2}
        /\ Rank(i) % 2 = 1 =>
              \E j \in RunStarts : Closes(j, i) /\ RunLen(j) = RunLen(i)

\* the spans whose inner content is not blank
HighlightedSections ==
    {i \in RunStarts :
        /\ Rank(i) % 2 = 1
        /\ \E j \in RunStarts :
              /\ Closes(j, i)
              /\ ~Blank(SubSeq(call.args.response, i + RunLen(i), j - 1))}

CheckTitle ==
    /\ pc = "check"
    /\ instruction.cls = "TitleChecker"
    /\ Checked(TitleCheck(instruction, call.args.response))
    /\ UNCHANGED call

SpecTitle ==
    /\ InitCall("detectable_format:title",
                [response : TextsOf({<<"<", "<">>, <<">", ">">>, <<"<">>, <<">">>,
                                     <<"a">>, <<" ">>, <<"\n">>}, TitleMaxPieces)])
    /\ [][Resolve \/ CheckTitle]_vars

(***************************************************************************)
(* Claims checked under SpecTitle.                                         *)
(***************************************************************************)
\* the response at hand holds a span <<inner>> whose inner content is not
\* blank and holds no "<" and no newline
HasTitleSpan ==
    LET value == call.args.response
    IN \E i \in 1..Len(value) : \E j \in (i + 2)..(Len(value) - 1) :
          /\ value[i] = "<" /\ value[i + 1] = "<"
          /\ value[j] = ">" /\ value[j + 1] = ">"
          /\ ~Blank(SubSeq(value, i + 2, j - 1))
          /\ \A k \in (i + 2)..(j - 1) : value[k] \notin {"<", "\n"}

\* C23 (as claimed): title returns True iff the response holds a span
\* <<inner>> whose inner content is not blank after stripping and holds no
\* "<" and no newline
C23_TitleVerdict ==
    (pc = "done" /\ instruction.cls = "TitleChecker")
    => /\ ret \in {"True", "False"}
       /\ ret = "True" <=> HasTitleSpan

(***************************************************************************)
(* SpecPostscript: a test case of detectable_content:postscript is looked  *)
(* up and checked.                                                         *)
(***************************************************************************)
CheckPostscript ==
    /\ pc = "check"
    /\ instruction.cls = "PostscriptChecker"
    /\ Checked(PostscriptCheck(instruction, call.args.response,
                               call.args.postscript_marker))
    /\ UNCHANGED call

SpecPostscript ==
    /\ InitCall("detectable_content:postscript",
                [response : TextsOf({<<"P", ".">>, <<"p", ".">>, <<" ">>, <<"s">>,
                                     <<".">>, <<"p", "x">>, <<"(">>}, PostscriptMaxPieces),
                 postscript_marker : {<<"P", ".", "S", ".">>,
                                      <<"P", ".", "P", ".", "S">>,
                                      <<" ", "P", ".", "S", ".", " ">>,
                                      <<"P", ".", "S">>, <<"s", "(">>, NoneArg}])
    /\ [][Resolve \/ CheckPostscript]_vars

(***************************************************************************)
(* Claims checked under SpecPostscript.                                    *)
(***************************************************************************)
\* the text m stands in the text v, character for character
Occurs(m, v) ==
    \E i \in 1..(Len(v) + 1 - Len(m)) : SubSeq(v, i, i + Len(m) - 1) = m

\* the characters of m stand in v from i on, in order, with nothing but
\* whitespace between them
RECURSIVE SpacedAt(_, _, _)
SpacedAt(m, v, i) ==
    IF m = <<>> THEN TRUE
    ELSE /\ i <= Len(v)
         /\ v[i] = Head(m)
         /\ SpacedAt(Tail(m), v, IF Len(m) = 1 THEN i + 1 ELSE SkipSpace(v, i + 1))

\* the marker without the blanks around it, and the ways to write 'P.S.'
\* and 'P.P.S' with a blank between the letters
MarkerAtHand == str_strip(call.args.postscript_marker, Whitespace)

SpacedForms ==
    IF MarkerAtHand = <<"P", ".", "S", ".">>
    THEN {<<"p", ".", "s", ".">>, <<"p", ".", " ", "s", ".">>}
    ELSE {<<"p", ".", "p", ".", "s">>, <<"p", ".", " ", "p", ".", "s">>,
          <<"p", ".", "p", ".", " ", "s">>, <<"p", ".", " ", "p", ".", " ", "s">>}

\* C24 (as claimed): postscript looks for the marker whatever the case; for
\* 'P.S.' and 'P.P.S' a blank between the letters is tolerated, and every
\* other marker is matched literally: each of its characters matches only
\* itself, and the call raises nothing
C24_PostscriptLiteral ==
    (pc = "done" /\ instruction.cls = "PostscriptChecker"
        /\ call.args.postscript_marker # NoneArg)
    => LET v == str_lower(call.args.response)
           m == str_lower(MarkerAtHand)
       IN /\ ret \in {"True", "False"}
          /\ IF MarkerAtHand \in {<<"P", ".", "S", ".">>, <<"P", ".", "P", ".", "S">>}
             THEN /\ (\E f \in SpacedForms : Occurs(f, v)) => ret = "True"
                  /\ ret = "True" => \E i \in 1..Len(v) : SpacedAt(m, v, i)
             ELSE ret = "True" <=> Occurs(m, v)


(***************************************************************************)
(* src/generate_response.py: runs of the script over one input file and    *)
(* one output file.  A run reads the keys of the output file, submits one  *)
(* process_prompt per query to a pool of num_workers threads and waits     *)
(* for all of them; the next run starts from the file the last one left.   *)
(* The output file is the sequence of the writes that reached it: a record *)
(* (its key, and the query it answers) or a newline.                       *)
(***************************************************************************)
\* queries of the input file
NumQueries == 2
\* the largest thread pool (args.num_workers)
MaxWorkers == 2

\* the keys the loop over the lines of the output file collects: a line
\* json.loads accepts holds exactly one record (an empty line, and a line of
\* two records, raise and are skipped)
KeysIn(file) ==
    {file[i].key : i \in {j \in 1..Len(file) :
        /\ file[j].write = "record"
        /\ j = 1 \/ file[j - 1].write = "newline"
        /\ j = Len(file) \/ file[j + 1].write = "newline"}}

\* the script starts: it loads completed_keys from the output file, makes
\* the lock and submits every query
StartRun ==
    /\ \A q \in DOMAIN queries : futures[q] = "none"
    /\ completed_keys' = KeysIn(output_file)
    /\ lock' = 0
    /\ futures' = [q \in DOMAIN queries |-> "pending"]
    /\ api' = [q \in DOMAIN queries |-> "not called"]
    /\ UNCHANGED <<queries, output_file, num_workers, checker_vars, conflict_vars,
                   thread_vars>>

\* a free worker takes the next submitted query: process_prompt returns
\* None at once when the key is in completed_keys
Begin(q) ==
    /\ futures[q] = "pending"
    /\ \A p \in 1..(q - 1) : futures[p] # "pending"
    /\ LET Running == {p \in DOMAIN queries :
                          futures[p] \notin {"none", "pending", "done"}}
       IN  Cardinality(Running) < num_workers
    /\ futures' = [futures EXCEPT ![q] =
          IF queries[q] \in completed_keys THEN "done" ELSE "call"]
    /\ UNCHANGED <<queries, output_file, completed_keys, lock, num_workers, api,
                   checker_vars, conflict_vars, thread_vars>>

\* the try block ran to its end: the API returned a response
CallReturns(q) ==
    /\ futures[q] = "call"
    /\ api' = [api EXCEPT ![q] = "returned"]
    /\ futures' = [futures EXCEPT ![q] = "acquire"]
    /\ UNCHANGED <<queries, output_file, completed_keys, lock, num_workers,
                   checker_vars, conflict_vars, thread_vars>>

\* something in the try block raised: the except clause prints it and
\* process_prompt returns None
CallRaises(q) ==
    /\ futures[q] = "call"
    /\ api' = [api EXCEPT ![q] = "raised"]
    /\ futures' = [futures EXCEPT ![q] = "done"]
    /\ UNCHANGED <<queries, output_file, completed_keys, lock, num_workers,
                   checker_vars, conflict_vars, thread_vars>>

\* `with lock:` entered without waiting for the lock to be free
AcquireUnguarded(q) ==
    /\ futures[q] = "acquire"
    /\ lock' = q
    /\ futures' = [futures EXCEPT ![q] = "dump"]
    /\ UNCHANGED <<queries, output_file, completed_keys, num_workers, api,
                   checker_vars, conflict_vars, thread_vars>>

\* `with lock:` is entered once no other thread holds the lock
AcquireLock(q) ==
    /\ futures[q] = "acquire"
    /\ lock = 0
    /\ lock' = q
    /\ futures' = [futures EXCEPT ![q] = "dump"]
    /\ UNCHANGED <<queries, output_file, completed_keys, num_workers, api,
                   checker_vars, conflict_vars, thread_vars>>

\* json.dump(result, f_out) on the file opened for appending
Dump(q) ==
    /\ futures[q] = "dump"
    /\ output_file' = Append(output_file,
                          [write |-> "record", key |-> queries[q], query |-> q])
    /\ futures' = [futures EXCEPT ![q] = "newline"]
    /\ UNCHANGED <<queries, completed_keys, lock, num_workers, api,
                   checker_vars, conflict_vars, thread_vars>>

\* f_out.write("\n")
WriteNewline(q) ==
    /\ futures[q] = "newline"
    /\ output_file' = Append(output_file,
                          [write |-> "newline", key |-> "", query |-> 0])
    /\ futures' = [futures EXCEPT ![q] = "release"]
    /\ UNCHANGED <<queries, completed_keys, lock, num_workers, api,
                   checker_vars, conflict_vars, thread_vars>>

\* the with blocks are left: the file is closed, the lock released, and
\* process_prompt returns the record
ReleaseLock(q) ==
    /\ futures[q] = "release"
    /\ lock' = 0
    /\ futures' = [futures EXCEPT ![q] = "done"]
    /\ UNCHANGED <<queries, output_file, completed_keys, num_workers, api,
                   checker_vars, conflict_vars, thread_vars>>

\* as_completed has yielded every future: the pool shuts down and the
\* script ends
EndRun ==
    /\ \A q \in DOMAIN queries : futures[q] = "done"
    /\ futures' = [q \in DOMAIN queries |-> "none"]
    /\ UNCHANGED <<queries, output_file, completed_keys, lock, num_workers, api,
                   checker_vars, conflict_vars, thread_vars>>

NextGen ==
    \/ StartRun
    \/ EndRun
    \/ \E q \in DOMAIN queries :
          \/ Begin(q)
          \/ CallReturns(q)
          \/ CallRaises(q)
          \/ AcquireLock(q)
          \/ Dump(q)
          \/ WriteNewline(q)
          \/ ReleaseLock(q)

\* the input file as given (a query without "key" has the key ""), no
\* output file yet, and no run started
InitGen ==
    /\ queries \in [1..NumQueries -> {"", "1000", "1001"}]
    /\ output_file = <<>>
    /\ completed_keys = {}
    /\ lock = 0
    /\ num_workers \in 1..MaxWorkers
    /\ futures = [q \in 1..NumQueries |-> "none"]
    /\ api = [q \in 1..NumQueries |-> "not called"]
    /\ CheckerIdle
    /\ ConflictIdle
    /\ ThreadsIdle

SpecGen == InitGen /\ [][NextGen]_vars

\* the same runs, where the threads of the pool keep being scheduled and
\* the script keeps being run again
SpecGenFair ==
    /\ SpecGen
    /\ WF_vars(NextGen)


(***************************************************************************)
(* Claims checked under SpecGen and SpecGenFair.                           *)
(***************************************************************************)
\* the futures inside the write section: between entering `with lock:` and
\* leaving it
Writing == {q \in DOMAIN queries : futures[q] \in {"dump", "newline", "release"}}

\* C30: the appends of the worker threads are mutually exclusive: at most
\* one future is inside the write section at a time, and it is the holder
\* of the lock; in the file every record is followed at once by its newline
\* (the last record's newline may still be due from the thread that is
\* writing it) and every newline follows a record
C30_AppendsExclusive ==
    /\ Cardinality(Writing) <= 1
    /\ \A q \in Writing : lock = q
    /\ \A i \in 1..Len(output_file) :
          IF output_file[i].write = "record"
          THEN IF i < Len(output_file)
               THEN output_file[i + 1].write = "newline"
               ELSE futures[output_file[i].query] = "newline"
          ELSE i > 1 /\ output_file[i - 1].write = "record"

\* two workers of one run with a record each: the second is writing its
\* record's line while the first waits for the lock
C30_Witness ==
    /\ futures[1] = "acquire"
    /\ futures[2] = "newline"
    /\ lock = 2
    /\ Len(output_file) = 1


\* the record positions of the output file
Records == {i \in 1..Len(output_file) : output_file[i].write = "record"}

\* the queries whose record the run at hand (or, between runs, the last
\* run) has written
WrittenInRun ==
    {q \in DOMAIN queries :
        api[q] = "returned" /\ futures[q] \in {"newline", "release", "done", "none"}}

\* C28: the output file holds at most one record per query key: no two
\* records of the file have the same key; a query whose key had a record
\* when the run started is skipped, without an API call and without a
\* write; and no two queries that a run has written have the same key
C28_OneRecordPerKey ==
    /\ \A i, j \in Records : i # j => output_file[i].key # output_file[j].key
    /\ \A q \in DOMAIN queries :
          (futures[q] \notin {"none", "pending"} /\ queries[q] \in completed_keys)
              => /\ futures[q] = "done"
                 /\ api[q] = "not called"
                 /\ q \notin WrittenInRun
    /\ \A p, q \in WrittenInRun : p # q => queries[p] # queries[q]


\* a step in which the API call of q raises leaves the file as it is and
\* every other future where it is
RaiseWritesNothing ==
    \A q \in DOMAIN queries :
        (futures[q] = "call" /\ api'[q] = "raised")
            => /\ output_file' = output_file
               /\ \A p \in DOMAIN queries \ {q} : futures'[p] = futures[p]

\* a query whose call raised in the run at hand (or, between runs, in the
\* last run) has returned, the run has written no record of it, and its
\* key is not among the keys of the output file
RaisedKeyAbsent ==
    \A q \in DOMAIN queries :
        api[q] = "raised"
            => /\ futures[q] \in {"done", "none"}
               /\ q \notin WrittenInRun
               /\ queries[q] \notin KeysIn(output_file)

\* the run that starts after a run in which the call of q raised does not
\* find the key of q in the output file, so that it calls the API for q again
RaisedRetried ==
    \A q \in DOMAIN queries :
        (api[q] = "raised" /\ futures[q] = "none" /\ futures'[q] = "pending")
            => queries[q] \notin completed_keys'

\* every key of the input has a record in the output file
EveryKeyRecorded ==
    \A q \in DOMAIN queries : queries[q] \in KeysIn(output_file)

\* every submitted query is brought to its end, whatever the others did
EveryFutureEnds ==
    \A q \in 1..NumQueries : (futures[q] = "pending") ~> (futures[q] = "done")

\* C29: a query whose API call raises writes no record and does not stop
\* the other queries; its key stays absent from the output file, so that
\* the next run calls the API for it again; and if no query's call goes on
\* raising for ever over the repeated runs, every key of the input
\* eventually has a record
C29_FailedCallRetried ==
    /\ [][RaiseWritesNothing]_vars
    /\ []RaisedKeyAbsent
    /\ [][RaisedRetried]_vars
    /\ EveryFutureEnds
    /\ (\A q \in 1..NumQueries : SF_vars(CallReturns(q))) => <>EveryKeyRecorded

====
